---- MODULE Spec2Model ----
(***************************************************************************)
(* Model of the PhDApply pipeline orchestrator (runPipeline, the variant   *)
(* with the AI-driven paper selection stage), of the paper-selector agent  *)
(* functions it calls, and of the SSE handler of POST /api/generate that   *)
(* drives it.  One run of the pipeline is modelled; control points are the *)
(* awaits of the code.                                                     *)
(***************************************************************************)
EXTENDS Integers, Sequences, FiniteSets, TLC

(***************************************************************************)
(* Program constants                                                       *)
(***************************************************************************)
\* PAPER_CONFIG
maxPapers == 5
maxIterations == 5
maxAdditionalPapers == 3
maxAdditionalIterations == 3
\* suggestAdditionalPapers keeps the first 3 suggestions
SuggestionLimit == 3
\* the fuzzy title match compares the first 30 characters
TitlePrefixLen == 30
\* selectPapers wants at least 2 papers; shouldContinueGathering likewise
MinPapers == 2
\* Math.floor((Date.now() - startTime) / 1000)
MsPerSecond == 1000
\* the fallback score is (year - 2020) * 2 + log10(citationCount + 1)
ScoreBaseYear == 2020
ScoreYearWeight == 2
\* number of entries of AGENTS
NumAgents == 8

(***************************************************************************)
(* Bounds of the model                                                     *)
(***************************************************************************)
\* Date.now() when the request arrives
ClockOrigin == 300
\* the clock advances in steps of TickMs, at most MaxTicks times
TickMs == 600
MaxTicks == 2
\* the candidates an oracle that always recommends two of them chooses from
OracleChoice == 3
MaxLaunches == 3

(***************************************************************************)
(* Values                                                                  *)
(***************************************************************************)
\* an optional JS value is a sequence of length 0 (undefined, or a JSON field
\* that is absent or of the wrong type) or of length 1 (the value)
None == <<>>
Some(v) == <<v>>
IsSome(m) == Len(m) = 1
ValueOf(m) == m[1]

Steps == 1..NumAgents

AGENTS ==
  [s \in Steps |->
     CASE s = 1 -> "cvParser"
       [] s = 2 -> "professorResearcher"
       [] s = 3 -> "paperSelector"
       [] s = 4 -> "fitAnalyzer"
       [] s = 5 -> "emailWriter"
       [] s = 6 -> "cvRecommender"
       [] s = 7 -> "motivationWriter"
       [] s = 8 -> "proposalWriter"]

\* the SharedContext field each stage assigns (the paper selector assigns none)
ContextField ==
  [s \in Steps |->
     CASE s = 1 -> "userProfile"
       [] s = 2 -> "professorProfile"
       [] s = 3 -> "none"
       [] s = 4 -> "fitAnalysis"
       [] s = 5 -> "email"
       [] s = 6 -> "cvRecommendations"
       [] s = 7 -> "motivationLetter"
       [] s = 8 -> "researchProposal"]

ContextFields == {ContextField[s] : s \in (Steps \ {3})}

\* the artifact fields of GenerationResult
ResultFields ==
  {"email", "cvRecommendations", "motivationLetter", "researchProposal",
   "professorProfile", "fitAnalysis"}

\* what a rejected promise carries
Errors == {"Error: Gemini API call failed", "TypeError"}

Min(a, b) == IF a < b THEN a ELSE b

(***************************************************************************)
(* Strings: a title is a sequence of characters                            *)
(***************************************************************************)
ToLowerChar(c) == IF c = "A" THEN "a" ELSE IF c = "B" THEN "b" ELSE c

\* String.prototype.toLowerCase
ToLowerCase(s) == [i \in 1..Len(s) |-> ToLowerChar(s[i])]

\* String.prototype.slice(0, n) and Array.prototype.slice(0, n), n >= 0
SliceTo(s, n) == SubSeq(s, 1, Min(n, Len(s)))

\* String.prototype.includes
Includes(s, sub) ==
  \E i \in 1..(Len(s) + 1) :
     /\ i + Len(sub) - 1 <= Len(s)
     /\ SubSeq(s, i, i + Len(sub) - 1) = sub

tAb == <<"A", "b">>
tab == <<"a", "b">>
tc == <<"c">>
tcb == <<"c", "b">>
td == <<"d">>
te == <<"e">>
tUnknown == <<"A", "A">>
tEmpty == <<>>

\* pdfUrl values: absent, an http(s) locator, a locator of another scheme
NoUrl == [scheme |-> "none", id |-> 0]
Http(n) == [scheme |-> "http", id |-> n]
Ftp(n) == [scheme |-> "ftp", id |-> n]
\* the pdfUrl the oracle writes into its own answer
OracleUrl == [scheme |-> "http", id |-> 99]

\* truthiness of p.pdfUrl
HasUrl(u) == u.scheme # "none"
\* pdfUrl.startsWith('http')
StartsWithHttp(u) == u.scheme = "http"

Paper(t, y, u, ft) == [title |-> t, year |-> y, pdfUrl |-> u, fullText |-> ft]

(***************************************************************************)
(* Map<string, string> downloadedContent: the keys in insertion order      *)
(* (the texts stored under them are not modelled)                          *)
(***************************************************************************)
Range(f) == {f[i] : i \in DOMAIN f}

\* Map.prototype.has
MapHas(m, k) == k \in Range(m)

\* Map.prototype.set: a new key is appended, a present key keeps its place
MapSet(m, k) == IF MapHas(m, k) THEN m ELSE Append(m, k)

(***************************************************************************)
(* selectPapers                                                            *)
(***************************************************************************)
\* availablePapers.filter(p => p.pdfUrl && !downloadedContent.has(p.title))
RECURSIVE FilterCandidates(_, _)
FilterCandidates(papers, downloaded) ==
  IF papers = <<>> THEN <<>>
  ELSE IF HasUrl(Head(papers).pdfUrl) /\ ~MapHas(downloaded, Head(papers).title)
       THEN <<Head(papers)>> \o FilterCandidates(Tail(papers), downloaded)
       ELSE FilterCandidates(Tail(papers), downloaded)

\* candidatePapers: not yet downloaded and with a PDF URL
CandidatePapers(pctx) == FilterCandidates(pctx.availablePapers, pctx.downloadedContent)

RemainingSlots(pctx) == pctx.maxPapers - pctx.totalDownloaded

\* the two early returns of selectPapers; None when neither applies
EarlyDecision(pctx) ==
  LET cands == CandidatePapers(pctx) IN
  IF Len(cands) = 0
  THEN Some([papersToDownload |-> <<>>,
             papersToSkip |-> <<>>,
             shouldSearchMore |-> (pctx.totalDownloaded < MinPapers),
             source |-> "noCandidates", recommended |-> <<>>, listed |-> <<>>,
             defaulted |-> {}])
  ELSE IF RemainingSlots(pctx) <= 0
  THEN Some([papersToDownload |-> <<>>,
             papersToSkip |-> [i \in 1..Len(cands) |-> cands[i].title],
             shouldSearchMore |-> FALSE,
             source |-> "limitReached", recommended |-> <<>>, listed |-> <<>>,
             defaulted |-> {}])
  ELSE None

\* the fuzzy title match of candidatePapers.find
TitleMatches(cTitle, aiTitle) ==
  \/ Includes(ToLowerCase(cTitle), SliceTo(ToLowerCase(aiTitle), TitlePrefixLen))
  \/ Includes(ToLowerCase(aiTitle), SliceTo(ToLowerCase(cTitle), TitlePrefixLen))

\* Array.prototype.find: index of the first matching candidate, 0 when none
FindCandidate(cands, aiTitle) ==
  LET hits == {i \in 1..Len(cands) : TitleMatches(cands[i].title, aiTitle)}
  IN IF hits = {} THEN 0 ELSE CHOOSE i \in hits : \A j \in hits : i <= j

\* Variant of ValidatedEntry: the locator is taken from the oracle's answer
ValidatedEntryOracleUrl(cands, aiPaper) ==
  LET i == FindCandidate(cands, aiPaper.title) IN
  IF i # 0 /\ HasUrl(cands[i].pdfUrl) /\ StartsWithHttp(cands[i].pdfUrl)
  THEN <<[title |-> cands[i].title, pdfUrl |-> aiPaper.pdfUrl]>>
  ELSE <<>>

\* Variant of ValidatedEntry: a title that matches no candidate is replaced
\* by the first candidate
ValidatedEntryReplaced(cands, aiPaper) ==
  LET i == FindCandidate(cands, aiPaper.title) IN
  IF i # 0 /\ HasUrl(cands[i].pdfUrl) /\ StartsWithHttp(cands[i].pdfUrl)
  THEN <<[title |-> cands[i].title, pdfUrl |-> cands[i].pdfUrl]>>
  ELSE IF i = 0 /\ cands # <<>>
  THEN <<[title |-> cands[1].title, pdfUrl |-> cands[1].pdfUrl]>>
  ELSE <<>>

\* the entry pushed for one oracle paper: <<>> when it is dropped
ValidatedEntry(cands, aiPaper) ==
  LET i == FindCandidate(cands, aiPaper.title) IN
  IF i # 0 /\ HasUrl(cands[i].pdfUrl) /\ StartsWithHttp(cands[i].pdfUrl)
  THEN <<[title |-> cands[i].title, pdfUrl |-> cands[i].pdfUrl]>>
  ELSE <<>>

RECURSIVE ValidatedPapers(_, _)
ValidatedPapers(cands, aiPapers) ==
  IF aiPapers = <<>> THEN <<>>
  ELSE ValidatedEntry(cands, Head(aiPapers)) \o ValidatedPapers(cands, Tail(aiPapers))

\* Variant of ValidateDecision: the validated papers are not limited to the
\* remaining slots
ValidateDecisionUnlimited(pctx, raw) ==
  LET cands == CandidatePapers(pctx)
      toDownload == IF IsSome(raw.papersToDownload) THEN ValueOf(raw.papersToDownload)
                    ELSE <<>>
      toSkip == IF IsSome(raw.papersToSkip) THEN ValueOf(raw.papersToSkip) ELSE <<>>
      more == IF IsSome(raw.shouldSearchMore) THEN ValueOf(raw.shouldSearchMore)
              ELSE FALSE
  IN [papersToDownload |-> ValidatedPapers(cands, toDownload),
      papersToSkip |-> toSkip,
      shouldSearchMore |-> more,
      source |-> "oracle",
      recommended |-> [i \in 1..Len(toDownload) |-> toDownload[i].title],
      listed |-> toSkip,
      defaulted |-> {f \in DOMAIN raw : ~IsSome(raw[f])}]

\* defaulting of the oracle's answer, mapping to real candidates, slot limit
\* (source, recommended, listed and defaulted are bookkeeping: which return
\* statement built the decision, the titles the oracle recommended, the
\* titles it listed as skipped and the fields the answer did not carry)
ValidateDecision(pctx, raw) ==
  LET cands == CandidatePapers(pctx)
      toDownload == IF IsSome(raw.papersToDownload) THEN ValueOf(raw.papersToDownload)
                    ELSE <<>>
      toSkip == IF IsSome(raw.papersToSkip) THEN ValueOf(raw.papersToSkip) ELSE <<>>
      more == IF IsSome(raw.shouldSearchMore) THEN ValueOf(raw.shouldSearchMore)
              ELSE FALSE
  IN [papersToDownload |-> SliceTo(ValidatedPapers(cands, toDownload), RemainingSlots(pctx)),
      papersToSkip |-> toSkip,
      shouldSearchMore |-> more,
      source |-> "oracle",
      recommended |-> [i \in 1..Len(toDownload) |-> toDownload[i].title],
      listed |-> toSkip,
      defaulted |-> {f \in DOMAIN raw : ~IsSome(raw[f])}]

\* Math.log10 on the citation counts that occur (powers of ten)
Log10(n) == CASE n = 1 -> 0 [] n = 10 -> 1 [] n = 100 -> 2

\* score = (year - 2020) * 2 + log10(citationCount + 1)
Score(p) == (p.year - ScoreBaseYear) * ScoreYearWeight + Log10(p.citationCount + 1)

\* Variant of SortByScore: the candidates keep their order
SortByScoreSkipped(seq) == seq

\* Array.prototype.sort with (a, b) => scoreB - scoreA: stable, descending
RECURSIVE InsertByScore(_, _)
InsertByScore(sorted, p) ==
  IF sorted = <<>> THEN <<p>>
  ELSE IF Score(Head(sorted)) >= Score(p)
       THEN <<Head(sorted)>> \o InsertByScore(Tail(sorted), p)
       ELSE <<p>> \o sorted

RECURSIVE SortByScore(_)
SortByScore(seq) ==
  IF seq = <<>> THEN <<>>
  ELSE InsertByScore(SortByScore(SubSeq(seq, 1, Len(seq) - 1)), seq[Len(seq)])

\* the catch branch of selectPapers
FallbackDecision(pctx) ==
  LET sorted == SliceTo(SortByScore(CandidatePapers(pctx)), RemainingSlots(pctx))
  IN [papersToDownload |->
        [i \in 1..Len(sorted) |-> [title |-> sorted[i].title, pdfUrl |-> sorted[i].pdfUrl]],
      papersToSkip |-> <<>>,
      shouldSearchMore |-> FALSE,
      source |-> "fallback", recommended |-> <<>>, listed |-> <<>>,
      defaulted |-> {}]

(***************************************************************************)
(* shouldContinueGathering                                                 *)
(***************************************************************************)
\* Variant of ContinueHardLimits: the iteration limit is not looked at
ContinueWithoutIterationLimit(pctx, currentIteration) ==
  IF pctx.totalDownloaded >= pctx.maxPapers THEN Some(FALSE)
  ELSE IF pctx.totalDownloaded < MinPapers THEN Some(TRUE)
  ELSE None

\* the three checks made before the oracle is asked; None: ask the oracle
ContinueHardLimits(pctx, currentIteration) ==
  IF currentIteration >= maxIterations THEN Some(FALSE)
  ELSE IF pctx.totalDownloaded >= pctx.maxPapers THEN Some(FALSE)
  ELSE IF pctx.totalDownloaded < MinPapers THEN Some(TRUE)
  ELSE None

\* result.shouldContinue ?? false
ContinueFromOracle(answer) == IF IsSome(answer) THEN ValueOf(answer) ELSE FALSE

\* Variant of ContinueOnError: a failed call answers continue
ContinueOnErrorGoesOn(pctx) == TRUE

\* the catch branch: continue only with fewer than 2 papers
ContinueOnError(pctx) == pctx.totalDownloaded < MinPapers

(***************************************************************************)
(* suggestAdditionalPapers                                                 *)
(***************************************************************************)
ValidateSuggestions(raw) ==
  LET sug == IF IsSome(raw.suggestedPapers) THEN ValueOf(raw.suggestedPapers) ELSE <<>>
      more == IF IsSome(raw.shouldSuggestMore) THEN ValueOf(raw.shouldSuggestMore)
              ELSE FALSE
  IN [suggestedPapers |-> SliceTo(sug, SuggestionLimit), shouldSuggestMore |-> more,
      defaulted |-> {f \in DOMAIN raw : ~IsSome(raw[f])}]

SuggestOnError ==
  [suggestedPapers |-> <<>>, shouldSuggestMore |-> FALSE, defaulted |-> {}]

(***************************************************************************)
(* Inputs: what the stages and the external calls can answer               *)
(***************************************************************************)
\* parseCV's profile: its fields are defaulted when falsy, never type-checked,
\* so skills / education / publications can be a non-array (wellTyped = FALSE)
UserProfiles == {[wellTyped |-> TRUE], [wellTyped |-> FALSE]}

\* recentPapers of researchProfessor's profile: three papers that carry
\* fullText and two candidates; seven papers of which six carry fullText;
\* no papers
ProfThreeSeeds ==
  <<Paper(tAb, 2022, NoUrl, TRUE), Paper(tab, 2023, NoUrl, TRUE),
    Paper(tcb, 2021, NoUrl, TRUE), Paper(tc, 2024, Http(1), FALSE),
    Paper(td, 2022, Http(2), FALSE)>>
ProfSixSeeds ==
  <<Paper(tAb, 2022, NoUrl, TRUE), Paper(tab, 2023, NoUrl, TRUE),
    Paper(tcb, 2021, NoUrl, TRUE), Paper(te, 2024, NoUrl, TRUE),
    Paper(tc, 2024, NoUrl, TRUE), Paper(td, 2022, NoUrl, TRUE),
    Paper(tUnknown, 2020, Http(1), FALSE)>>
ProfNoPapers == <<>>

ProfessorProfiles == {ProfThreeSeeds, ProfSixSeeds, ProfNoPapers}

\* six candidates and no paper with fullText: more candidates than maxPapers
ProfSixCandidates ==
  <<Paper(tAb, 2024, Http(1), FALSE), Paper(tab, 2023, Http(2), FALSE),
    Paper(tc, 2022, Http(3), FALSE), Paper(tcb, 2021, Http(4), FALSE),
    Paper(td, 2021, Http(5), FALSE), Paper(te, 2020, Http(6), FALSE)>>
\* a candidate whose locator is not an http(s) one, a candidate with an
\* http locator, a paper without locator
ProfMixedLocators ==
  <<Paper(tc, 2024, Ftp(1), FALSE), Paper(td, 2022, Http(2), FALSE),
    Paper(tAb, 2023, NoUrl, FALSE)>>

\* ten candidates with http PDF locators, none with fullText; their titles
\* do not match one another under the fuzzy title match
DigitChars == <<"0", "1", "2", "3", "4", "5", "6", "7", "8", "9">>
TenTitles == [i \in 1..Len(DigitChars) |-> <<"p", DigitChars[i]>>]
ProfTenCandidates ==
  [i \in 1..Len(TenTitles) |-> Paper(TenTitles[i], 2024, Http(i), FALSE)]

\* four papers with fullText, so that one slot is left, a candidate whose
\* locator is not an http(s) one and a candidate with an http locator
ProfOneSlotMixed ==
  <<Paper(tAb, 2022, NoUrl, TRUE), Paper(tab, 2023, NoUrl, TRUE),
    Paper(tcb, 2021, NoUrl, TRUE), Paper(te, 2024, NoUrl, TRUE),
    Paper(tc, 2022, Ftp(1), FALSE), Paper(td, 2024, Http(2), FALSE)>>

\* the profiles the paper selection is explored with
GatherProfiles ==
  ProfessorProfiles \cup {ProfSixCandidates, ProfMixedLocators, ProfOneSlotMixed}

AiPaper(t) == [title |-> t, pdfUrl |-> OracleUrl]

\* the parsed JSON of the selection oracle, before validation
RawDecisions ==
  [papersToDownload :
     {None, Some(<<>>), Some(<<AiPaper(tc)>>), Some(<<AiPaper(tc), AiPaper(tc)>>),
      Some(<<AiPaper(tc), AiPaper(td)>>), Some(<<AiPaper(tUnknown), AiPaper(td)>>)},
   papersToSkip : {None},
   shouldSearchMore : {Some(TRUE), Some(FALSE), None}]

\* the answers the paper selection is explored with: up to two recommended
\* titles, with or without a list of skipped titles
GatherTitles == {tab, tc, td, tUnknown}
GatherDecisions ==
  [papersToDownload :
     {None, Some(<<>>)}
       \cup {Some(<<AiPaper(t)>>) : t \in GatherTitles}
       \cup {Some(<<AiPaper(t), AiPaper(u)>>) : t \in GatherTitles, u \in GatherTitles},
   papersToSkip : {None, Some(<<tUnknown>>)},
   shouldSearchMore : {Some(TRUE), Some(FALSE), None}]

\* an oracle that recommends exactly two different candidates that are not
\* downloaded yet (two of the first OracleChoice ones), by their exact
\* titles, and asks to go on
TwoValidAndContinue(pctx) ==
  LET cands == SliceTo(CandidatePapers(pctx), OracleChoice) IN
  {[papersToDownload |->
      Some(<<AiPaper(cands[ij[1]].title), AiPaper(cands[ij[2]].title)>>),
    papersToSkip |-> None,
    shouldSearchMore |-> Some(TRUE)] :
     ij \in {p \in (1..Len(cands)) \X (1..Len(cands)) : p[1] # p[2]}}

\* the parsed JSON of the "enough?" oracle: its shouldContinue field
RawContinues == {Some(TRUE), Some(FALSE), None}

\* the parsed JSON of the suggestion oracle, before validation
\* a suggested paper of the oracle's answer: its title, when it has one
Suggestion(t) == [title |-> Some(t)]
SuggestionWithoutTitle == [title |-> None]

RawSuggestions ==
  [suggestedPapers : {None, Some(<<Suggestion(te)>>)},
   shouldSuggestMore : {Some(TRUE), Some(FALSE), None}]

\* downloadOpenAccessPdf + parsePDFBuffer: text longer than 100 characters,
\* null buffer, parse error, text of 100 characters or fewer
FetchOutcomes == {"ok", "null", "parseThrow", "short"}

\* the outcomes the pipeline specification draws from
SomeFetchOutcomes == {"ok", "null"}

\* searchPaperByTitle: a paper with a PDF URL (title as found), a paper
\* without one, nothing, or a rejected call
SearchOutcomes ==
  {[kind |-> "found", title |-> t] : t \in {te, tc}}
    \cup {[kind |-> k, title |-> tEmpty] : k \in {"noPdf", "null", "throw"}}

SomeSearchOutcomes ==
  {[kind |-> "found", title |-> te], [kind |-> "null", title |-> tEmpty]}

\* the answers the additional-papers loop is explored with: no field at
\* all; one suggestion and more to come; two suggestions; four suggestions
\* (more than the limit of three) without shouldSuggestMore; a suggestion
\* that carries no title
SuggestionAnswer(papers, more) == [suggestedPapers |-> papers, shouldSuggestMore |-> more]
AdditionalSuggestions ==
  {SuggestionAnswer(None, None),
   SuggestionAnswer(Some(<<Suggestion(te)>>), Some(TRUE)),
   SuggestionAnswer(Some(<<Suggestion(te), Suggestion(tc)>>), Some(FALSE)),
   SuggestionAnswer(Some(<<Suggestion(tc), Suggestion(te), Suggestion(td),
                           Suggestion(tab)>>), None),
   SuggestionAnswer(Some(<<SuggestionWithoutTitle>>), Some(TRUE))}

\* the search outcomes the additional-papers loop is explored with
AdditionalSearchOutcomes ==
  {[kind |-> "found", title |-> te], [kind |-> "null", title |-> tEmpty]}

\* the selection answers the additional-papers loop is explored with: no
\* field at all; a list of skipped titles only; one download and a list of
\* skipped titles, shouldSearchMore missing; two downloads and go on
SparseDecisions ==
  {[papersToDownload |-> None, papersToSkip |-> None, shouldSearchMore |-> None],
   [papersToDownload |-> None, papersToSkip |-> Some(<<tUnknown>>),
    shouldSearchMore |-> Some(TRUE)],
   [papersToDownload |-> Some(<<AiPaper(tc)>>), papersToSkip |-> Some(<<tUnknown>>),
    shouldSearchMore |-> None],
   [papersToDownload |-> Some(<<AiPaper(tc), AiPaper(td)>>), papersToSkip |-> None,
    shouldSearchMore |-> Some(TRUE)]}

(***************************************************************************)
(* State                                                                   *)
(***************************************************************************)
VARIABLES
  pc,               \* control point of the request handler / runPipeline
  now,              \* Date.now()
  startTime,        \* runPipeline: const startTime
  agentStatuses,    \* runPipeline: Map<number, AgentStatus>
  context,          \* runPipeline: SharedContext (without input)
  cur,              \* the stage whose promise runPipeline awaits
  paperContext,     \* stage 3: PaperContext
  iteration,        \* stage 3: let iteration
  decision,         \* stage 3: const decision of the current iteration
  dlIndex,          \* stage 3: position of the for loop in papersToDownload
  additional,       \* stage 3b: locals of the additional papers loop
  result,           \* the GenerationResult runPipeline returned
  isClosed,         \* handler: let isClosed
  clientGone,       \* the consumer cancelled the response stream
  sse,              \* what was enqueued on the response stream (summary)
  closeCalls,       \* number of controller.close() calls
  emitted,          \* statuses passed to onStatus by the latest step, in order
  prevEmitted,      \* the status passed to onStatus just before those
  history,          \* per stage: invocations, error and terminal events, notices
  lastFetch,        \* the locator and title of the latest download attempt
  runs,             \* two calls of runPipeline side by side: frames and objects
  browser           \* tools/browser.ts: browserInstance, the launched browsers, the calls

vars ==
  <<pc, now, startTime, agentStatuses, context, cur, paperContext, iteration,
    decision, dlIndex, additional, result, isClosed, clientGone, sse,
    closeCalls, emitted, prevEmitted, history, lastFetch, runs, browser>>

(***************************************************************************)
(* updateStatus                                                            *)
(***************************************************************************)
\* Variants of TimeElapsed: rounding to the nearest second, and the
\* difference taken the wrong way round
TimeElapsedRounded(nowv, start) == (nowv - start + (MsPerSecond \div 2)) \div MsPerSecond
TimeElapsedBackwards(nowv, start) == (start - nowv) \div MsPerSecond

\* Math.floor((Date.now() - startTime) / 1000)
TimeElapsed(nowv, start) == (nowv - start) \div MsPerSecond

\* { ...current, ...update, timeElapsed }
Updated(current, update, nowv, start) ==
  [f \in DOMAIN current |->
     IF f = "timeElapsed" THEN TimeElapsed(nowv, start)
     ELSE IF f \in DOMAIN update THEN update[f]
     ELSE current[f]]

\* a sequence of updateStatus(step, update) calls made without an await in
\* between: the resulting table and the statuses handed to onStatus
RECURSIVE RunUpdates(_, _, _, _)
RunUpdates(statuses, calls, nowv, start) ==
  IF calls = <<>> THEN [statuses |-> statuses, events |-> <<>>]
  ELSE LET c == Head(calls)
           updated == Updated(statuses[c.step], c.update, nowv, start)
           rest == RunUpdates([statuses EXCEPT ![c.step] = updated],
                              Tail(calls), nowv, start)
       IN [statuses |-> rest.statuses, events |-> <<updated>> \o rest.events]

Call(step, update) == [step |-> step, update |-> update]

\* the initial table: every agent pending
InitialStatuses ==
  [s \in Steps |->
     [step |-> s, status |-> "pending", currentAction |-> "Waiting...",
      timeElapsed |-> 0, output |-> FALSE, error |-> None]]

\* Variant of Progress: the notice repeats the text of the initial event
ProgressRepeatsStart(step) == Call(step, [currentAction |-> "Starting"])

\* the updates runPipeline makes
Running(step) == Call(step, [status |-> "running", currentAction |-> "Starting"])
Progress(step) == Call(step, [currentAction |-> "Working"])
\* Variant of Complete: the stage is left running
CompleteLeftRunning(step) ==
  Call(step, [status |-> "running", currentAction |-> "Done", output |-> TRUE])
Complete(step) ==
  Call(step, [status |-> "complete", currentAction |-> "Done", output |-> TRUE])
Failed(step, e) ==
  Call(step, [status |-> "error", currentAction |-> "Error", error |-> Some(e)])

(***************************************************************************)
(* POST /api/generate: sendEvent on the response stream                    *)
(***************************************************************************)
\* JSON.stringify of an AgentStatus: a field that is undefined is left out
StatusJson(st) ==
  [f \in {g \in DOMAIN st : (g = "error" => IsSome(st.error))
                               /\ (g = "output" => st.output)} |->
     IF f = "error" THEN ValueOf(st.error) ELSE st[f]]

\* JSON.stringify of a GenerationResult: likewise
ResultJson(r) ==
  [f \in {g \in DOMAIN r : g = "success" \/ IsSome(r[g])} |->
     IF f = "success" THEN r.success ELSE ValueOf(r[f])]

\* `event: ${event}\ndata: ${JSON.stringify(data)}\n\n`
StatusEvent(st) == [name |-> "status", data |-> StatusJson(st)]
CompleteEvent(r) == [name |-> "complete", data |-> ResultJson(r)]

\* the stream: the name of the last event, whether a status event was seen,
\* the number of terminal events, whether a status followed a terminal
\* event, the status events enqueued by the latest step that reported
\* statuses, and the data of the terminal event
InitialSse ==
  [last |-> "none", statuses |-> FALSE, terminals |-> 0, late |-> FALSE,
   batch |-> <<>>, final |-> None]

\* Variant of Enqueue: a terminal event is written twice
EnqueueTwice(stream, event) ==
  [last |-> event.name,
   statuses |-> stream.statuses \/ event.name = "status",
   terminals |-> stream.terminals
                   + (IF event.name \in {"complete", "error"} THEN 2 ELSE 0),
   late |-> stream.late \/ (event.name = "status" /\ stream.terminals > 0),
   batch |-> IF event.name = "status" THEN Append(stream.batch, event)
             ELSE stream.batch,
   final |-> IF event.name = "status" THEN stream.final ELSE Some(event.data)]

\* Variant of Enqueue: a status event is put before the earlier ones
EnqueueNewestFirst(stream, event) ==
  [last |-> event.name,
   statuses |-> stream.statuses \/ event.name = "status",
   terminals |-> stream.terminals
                   + (IF event.name \in {"complete", "error"} THEN 1 ELSE 0),
   late |-> stream.late \/ (event.name = "status" /\ stream.terminals > 0),
   batch |-> IF event.name = "status" THEN <<event>> \o stream.batch
             ELSE stream.batch,
   final |-> IF event.name = "status" THEN stream.final ELSE Some(event.data)]

\* controller.enqueue succeeded
Enqueue(stream, event) ==
  [last |-> event.name,
   statuses |-> stream.statuses \/ event.name = "status",
   terminals |-> stream.terminals
                   + (IF event.name \in {"complete", "error"} THEN 1 ELSE 0),
   late |-> stream.late \/ (event.name = "status" /\ stream.terminals > 0),
   batch |-> IF event.name = "status" THEN Append(stream.batch, event)
             ELSE stream.batch,
   final |-> IF event.name = "status" THEN stream.final ELSE Some(event.data)]

\* Variant of SendEvent: a throwing enqueue is not remembered
SendEventForgetsFailure(h, event, gone) ==
  IF h.isClosed \/ gone THEN h
  ELSE [h EXCEPT !.sse = Enqueue(h.sse, event)]

\* sendEvent: nothing once closed; a throwing enqueue (the consumer is gone)
\* sets isClosed
SendEvent(h, event, gone) ==
  IF h.isClosed THEN h
  ELSE IF gone THEN [h EXCEPT !.isClosed = TRUE]
  ELSE [h EXCEPT !.sse = Enqueue(h.sse, event)]

RECURSIVE SendEvents(_, _, _)
SendEvents(h, events, gone) ==
  IF events = <<>> THEN h
  ELSE SendEvents(SendEvent(h, Head(events), gone), Tail(events), gone)

(***************************************************************************)
(* Bookkeeping of what the run did (read by the properties only)           *)
(***************************************************************************)
InitialHistory ==
  [s \in Steps |-> [invoked |-> 0, errors |-> 0, terminals |-> 0, noticed |-> FALSE]]

\* an intermediate status of a stage: 'running' with a currentAction other
\* than the one of its initial 'running' event
IsNotice(event, step) ==
  /\ event.step = step
  /\ event.status = "running"
  /\ event.currentAction # "Starting"

CountStatus(events, step, wanted) ==
  Cardinality({i \in 1..Len(events) :
                 events[i].step = step /\ events[i].status \in wanted})

HistoryAfter(h, events, invokedSteps) ==
  [s \in Steps |->
     [invoked |-> h[s].invoked + (IF s \in invokedSteps THEN 1 ELSE 0),
      errors |-> h[s].errors + CountStatus(events, s, {"error"}),
      terminals |-> h[s].terminals + CountStatus(events, s, {"complete", "error"}),
      noticed |-> h[s].noticed \/ \E i \in 1..Len(events) : IsNotice(events[i], s)]]

\* the updateStatus calls of one step, made on table `base` with start time
\* `start`; every resulting status goes through onStatus to sendEvent('status')
Report(base, start, calls, invokedSteps) ==
  \E r \in {RunUpdates(base, calls, now, start)} :
    \E h \in {SendEvents([isClosed |-> isClosed,
                           sse |-> IF calls = <<>> THEN sse
                                   ELSE [sse EXCEPT !.batch = <<>>]],
                          [i \in 1..Len(r.events) |-> StatusEvent(r.events[i])],
                          clientGone)} :
      /\ agentStatuses' = r.statuses
      /\ history' = HistoryAfter(history, r.events, invokedSteps)
      /\ isClosed' = h.isClosed
      /\ sse' = h.sse
      /\ IF calls = <<>>
         THEN UNCHANGED <<emitted, prevEmitted>>
         ELSE /\ emitted' = r.events
              /\ prevEmitted' = IF emitted = <<>> THEN prevEmitted
                                ELSE Some(emitted[Len(emitted)])

(***************************************************************************)
(* runPipeline: results and the catch block                                *)
(***************************************************************************)
NoContext == [f \in ContextFields |-> None]

\* Variant of SuccessResult: the email is left out
SuccessResultWithoutEmail(ctx) ==
  [success |-> TRUE, error |-> None,
   email |-> None,
   cvRecommendations |-> ctx["cvRecommendations"],
   motivationLetter |-> ctx["motivationLetter"],
   researchProposal |-> ctx["researchProposal"],
   professorProfile |-> ctx["professorProfile"],
   fitAnalysis |-> ctx["fitAnalysis"]]

SuccessResult(ctx) ==
  [success |-> TRUE, error |-> None,
   email |-> ctx["email"],
   cvRecommendations |-> ctx["cvRecommendations"],
   motivationLetter |-> ctx["motivationLetter"],
   researchProposal |-> ctx["researchProposal"],
   professorProfile |-> ctx["professorProfile"],
   fitAnalysis |-> ctx["fitAnalysis"]]

\* Variants of FailureResult: the professor profile is left out; an email is
\* made up
FailureResultWithoutProfile(ctx, e) ==
  [success |-> FALSE, error |-> Some(e),
   email |-> ctx["email"],
   cvRecommendations |-> ctx["cvRecommendations"],
   motivationLetter |-> ctx["motivationLetter"],
   researchProposal |-> ctx["researchProposal"],
   professorProfile |-> None,
   fitAnalysis |-> ctx["fitAnalysis"]]
FailureResultFabricated(ctx, e) ==
  [success |-> FALSE, error |-> Some(e),
   email |-> Some([by |-> "emailWriter"]),
   cvRecommendations |-> ctx["cvRecommendations"],
   motivationLetter |-> ctx["motivationLetter"],
   researchProposal |-> ctx["researchProposal"],
   professorProfile |-> ctx["professorProfile"],
   fitAnalysis |-> ctx["fitAnalysis"]]

FailureResult(ctx, e) ==
  [success |-> FALSE, error |-> Some(e),
   email |-> ctx["email"],
   cvRecommendations |-> ctx["cvRecommendations"],
   motivationLetter |-> ctx["motivationLetter"],
   researchProposal |-> ctx["researchProposal"],
   professorProfile |-> ctx["professorProfile"],
   fitAnalysis |-> ctx["fitAnalysis"]]

\* Variant of FirstRunning: no agent is found
FirstRunningNone(statuses) == 0

\* for (const agent of AGENTS) if (status === 'running') { ...; break }
FirstRunning(statuses) ==
  LET running == {s \in Steps : statuses[s].status = "running"}
  IN IF running = {} THEN 0 ELSE CHOOSE s \in running : \A r \in running : s <= r

\* the updateStatus call of the catch block, after the calls `before` of the
\* same step: none when no agent is running
CatchCalls(before, e) ==
  LET st == RunUpdates(agentStatuses, before, now, startTime).statuses
      failing == FirstRunning(st)
  IN IF failing = 0 THEN before ELSE before \o <<Failed(failing, e)>>

\* the locals of the paper selection, outside of it
NoPaperContext == None
NoDecision == None
NoAdditional == None
NoFetch == None

\* catch (error): mark the running agent, return the failure result
Catch(before, e) ==
  /\ \E calls \in {CatchCalls(before, e)} : Report(agentStatuses, startTime, calls, {})
  /\ result' = Some(FailureResult(context, e))
  /\ pc' = "returned"
  /\ paperContext' = NoPaperContext
  /\ decision' = NoDecision
  /\ additional' = NoAdditional
  /\ iteration' = 0
  /\ dlIndex' = 0
  /\ lastFetch' = NoFetch
  /\ UNCHANGED <<now, startTime, context, cur, clientGone, runs, browser, closeCalls>>

(***************************************************************************)
(* Two calls of runPipeline side by side.  A call has a frame (where it is *)
(* suspended, its loop position, what it has handed to onStatus, what it   *)
(* returned) and the objects it creates on entry: context, agentStatuses   *)
(* and, in stage 3, paperContext.                                          *)
(***************************************************************************)
RunIds == {"a", "b"}

\* const context = {...}; const agentStatuses = AGENTS.map(...)
NewObjects ==
  [context |-> NoContext, agentStatuses |-> InitialStatuses,
   paperContext |-> NoPaperContext]

InitialFrame ==
  [pc |-> "idle", cur |-> 0, todo |-> <<>>, result |-> None, emitted |-> <<>>]

InitialRuns ==
  [frame |-> [r \in RunIds |-> InitialFrame],
   obj |-> [r \in RunIds |-> NewObjects],
   trace |-> [r \in RunIds |-> <<>>]]

(***************************************************************************)
(* Initial state: the request was accepted, the stream is open             *)
(***************************************************************************)
\* tools/browser.ts at module load: browserInstance is null, no browser is
\* launched, no call of getBrowser or closeBrowser is in progress.  Browsers
\* are numbered in the order in which chromium.launch resolves; 0 is null;
\* rejected counts the launches that failed.
InitialBrowser ==
  [browserInstance |-> 0,
   state |-> [b \in 1..MaxLaunches |-> "none"],
   launched |-> 0,
   rejected |-> 0,
   call |-> [c \in RunIds |-> [pc |-> "idle", browser |-> 0]],
   closing |-> 0]

Init ==
  /\ pc = "request"
  /\ now = ClockOrigin
  /\ startTime = 0
  /\ agentStatuses = InitialStatuses
  /\ context = NoContext
  /\ cur = 0
  /\ paperContext = NoPaperContext
  /\ iteration = 0
  /\ decision = NoDecision
  /\ dlIndex = 0
  /\ additional = NoAdditional
  /\ result = None
  /\ isClosed = FALSE
  /\ clientGone = FALSE
  /\ sse = InitialSse
  /\ closeCalls = 0
  /\ emitted = <<>>
  /\ prevEmitted = None
  /\ history = InitialHistory
  /\ lastFetch = NoFetch
  /\ runs = InitialRuns
  /\ browser = InitialBrowser

(***************************************************************************)
(* Environment: time passes, the client goes away                          *)
(***************************************************************************)
\* Date.now() is first read by runPipeline (startTime): time is followed from
\* then on, until the handler is done
Tick ==
  /\ pc \notin {"request", "finished"}
  /\ now + TickMs <= ClockOrigin + MaxTicks * TickMs
  /\ now' = now + TickMs
  /\ UNCHANGED <<pc, startTime, agentStatuses, context, cur, paperContext,
                 iteration, decision, dlIndex, additional, result, isClosed,
                 clientGone, runs, browser, sse, closeCalls, emitted, prevEmitted,
                 history, lastFetch>>

\* the consumer cancels the stream: controller.enqueue throws from now on
ClientDisconnect ==
  /\ pc # "finished"
  /\ ~clientGone
  /\ clientGone' = TRUE
  /\ UNCHANGED <<runs, browser, pc, now, startTime, agentStatuses, context, cur, paperContext,
                 iteration, decision, dlIndex, additional, result, isClosed,
                 sse, closeCalls, emitted, prevEmitted, history,
                 lastFetch>>

(***************************************************************************)
(* runPipeline: stages 1, 2, 4..8                                          *)
(***************************************************************************)
\* what stage `step` can resolve to
StageOutputs(step) ==
  IF step = 1 THEN UserProfiles
  ELSE IF step = 2 THEN ProfessorProfiles
  ELSE {[by |-> AGENTS[step]]}

\* entry of runPipeline up to the await of parseCV, whose first statement is
\* an onStatus call
RunPipelineStart ==
  /\ pc = "request"
  /\ startTime' = now
  /\ Report(InitialStatuses, now, <<Running(1), Progress(1)>>, {1})
  /\ context' = NoContext
  /\ cur' = 1
  /\ pc' = "stage"
  /\ UNCHANGED <<now, paperContext, iteration, decision, dlIndex, additional,
                 result, clientGone, runs, browser, closeCalls, lastFetch>>

\* a progress notice of the awaited stage: updateStatus(step, {currentAction})
StageProgress ==
  /\ pc = "stage"
  /\ Report(agentStatuses, startTime, <<Progress(cur)>>, {})
  /\ UNCHANGED <<pc, now, startTime, context, cur, paperContext, iteration,
                 decision, dlIndex, additional, result, clientGone, runs, browser, closeCalls,
                 lastFetch>>

\* the awaited stage resolves (not the professor researcher, not the last
\* stage): its artifact is stored, it is complete, the next stage is invoked
StageReturn ==
  /\ pc = "stage"
  /\ cur \in {1, 4, 5, 6, 7}
  /\ \E out \in StageOutputs(cur) :
       context' = [context EXCEPT ![ContextField[cur]] = Some(out)]
  /\ Report(agentStatuses, startTime,
            <<Complete(cur), Running(cur + 1), Progress(cur + 1)>>, {cur + 1})
  /\ cur' = cur + 1
  /\ UNCHANGED <<pc, now, startTime, paperContext, iteration, decision,
                 dlIndex, additional, result, clientGone, runs, browser, closeCalls, lastFetch>>

\* the last stage resolves: runPipeline returns the success result
LastStageReturn ==
  /\ pc = "stage"
  /\ cur = NumAgents
  /\ \E out \in StageOutputs(cur) :
       /\ context' = [context EXCEPT ![ContextField[cur]] = Some(out)]
       /\ result' = Some(SuccessResult(context'))
  /\ Report(agentStatuses, startTime, <<Complete(cur)>>, {})
  /\ pc' = "returned"
  /\ UNCHANGED <<now, startTime, cur, paperContext, iteration, decision,
                 dlIndex, additional, clientGone, runs, browser, closeCalls, lastFetch>>

\* the awaited stage rejects
StageThrow ==
  /\ pc = "stage"
  /\ \E e \in Errors : Catch(<<>>, e)

(***************************************************************************)
(* POST /api/generate: after runPipeline                                   *)
(***************************************************************************)
\* sendEvent('complete', result); finally { if (!isClosed) { isClosed = true;
\* controller.close() } }
HandlerFinish ==
  /\ pc = "returned"
  /\ LET h == SendEvent([isClosed |-> isClosed, sse |-> sse],
                         CompleteEvent(ValueOf(result)), clientGone)
     IN /\ sse' = h.sse
        /\ isClosed' = TRUE
        /\ closeCalls' = IF h.isClosed THEN closeCalls ELSE closeCalls + 1
  /\ pc' = "finished"
  /\ UNCHANGED <<now, startTime, agentStatuses, context, cur, paperContext,
                 iteration, decision, dlIndex, additional, result, clientGone, runs, browser,
                 emitted, prevEmitted, history, lastFetch>>

(***************************************************************************)
(* runPipeline, stage 3: the paper selection loop                          *)
(***************************************************************************)
\* availablePapers: recentPapers.map(...), citationCount 0
InitialPaperContext(recentPapers) ==
  [availablePapers |->
     [i \in 1..Len(recentPapers) |->
        [title |-> recentPapers[i].title, year |-> recentPapers[i].year,
         pdfUrl |-> recentPapers[i].pdfUrl, citationCount |-> 0]],
   downloadedContent |-> <<>>,
   selectionHistory |-> <<>>,
   totalDownloaded |-> 0,
   maxPapers |-> maxPapers]

\* for (const paper of recentPapers) if (paper.fullText) { set; totalDownloaded++ }
RECURSIVE SeedDownloaded(_, _)
SeedDownloaded(pctx, papers) ==
  IF papers = <<>> THEN pctx
  ELSE SeedDownloaded(
         IF Head(papers).fullText
         THEN [pctx EXCEPT !.downloadedContent = MapSet(@, Head(papers).title),
                           !.totalDownloaded = @ + 1]
         ELSE pctx,
         Tail(papers))

\* the professor researcher resolves: stage 2 is complete, stage 3 starts and
\* the paper context is initialised
ProfessorReturn(profiles) ==
  /\ pc = "stage"
  /\ cur = 2
  /\ \E out \in profiles :
       /\ context' = [context EXCEPT !["professorProfile"] = Some(out)]
       /\ paperContext' = SeedDownloaded(InitialPaperContext(out), out)
  /\ Report(agentStatuses, startTime, <<Complete(2), Running(3)>>, {3})
  /\ cur' = 3
  /\ iteration' = 0
  /\ pc' = "sel_head"
  /\ UNCHANGED <<now, startTime, decision, dlIndex, additional, result,
                 clientGone, runs, browser, closeCalls, lastFetch>>

\* Every path back to the head of the while loop goes through
\* shouldContinueGathering answering "continue", which it does only when
\* iteration < maxIterations: the loop is always entered.

\* iteration++, the iteration notice, and selectPapers returning early
SelectPapersEarly ==
  /\ pc = "sel_head"
  /\ iteration < maxIterations
  /\ IsSome(EarlyDecision(paperContext))
  /\ iteration' = iteration + 1
  /\ Report(agentStatuses, startTime, <<Progress(3), Progress(3)>>, {})
  /\ decision' = ValueOf(EarlyDecision(paperContext))
  /\ pc' = "sel_decided"
  /\ UNCHANGED <<now, startTime, context, cur, paperContext, dlIndex,
                 additional, result, clientGone, runs, browser, closeCalls, lastFetch>>

\* iteration++, the iteration notice, and selectPapers up to its oracle call
SelectPapersAsk ==
  /\ pc = "sel_head"
  /\ iteration < maxIterations
  /\ ~IsSome(EarlyDecision(paperContext))
  /\ ValueOf(context["userProfile"]).wellTyped
  /\ iteration' = iteration + 1
  /\ Report(agentStatuses, startTime, <<Progress(3), Progress(3), Progress(3)>>, {})
  /\ pc' = "sel_oracle"
  /\ decision' = NoDecision
  /\ UNCHANGED <<now, startTime, context, cur, paperContext, dlIndex,
                 additional, result, clientGone, runs, browser, closeCalls, lastFetch>>

\* the same, but building the prompt throws (userProfile.skills.join is not a
\* function): selectPapers rejects outside of its try block
SelectPapersThrow ==
  /\ pc = "sel_head"
  /\ iteration < maxIterations
  /\ ~IsSome(EarlyDecision(paperContext))
  /\ ~ValueOf(context["userProfile"]).wellTyped
  /\ Catch(<<Progress(3), Progress(3), Progress(3)>>, "TypeError")

\* callGeminiJSON resolves: the answer is validated
SelOracleAnswer(answers) ==
  /\ pc = "sel_oracle"
  /\ \E raw \in answers : decision' = ValidateDecision(paperContext, raw)
  /\ Report(agentStatuses, startTime, <<Progress(3)>>, {})
  /\ pc' = "sel_decided"
  /\ UNCHANGED <<now, startTime, context, cur, paperContext, iteration, dlIndex,
                 additional, result, clientGone, runs, browser, closeCalls, lastFetch>>

\* callGeminiJSON rejects, or validating its answer throws: the fallback
SelOracleFail ==
  /\ pc = "sel_oracle"
  /\ decision' = FallbackDecision(paperContext)
  /\ pc' = "sel_decided"
  /\ UNCHANGED <<now, startTime, agentStatuses, context, cur, paperContext,
                 iteration, dlIndex, additional, result, isClosed, clientGone, runs, browser,
                 sse, closeCalls, emitted, prevEmitted, history,
                 lastFetch>>

\* Variant of PushDecision: only the latest decision is kept
PushDecisionKeepsLatest(selectionHistory, entry) == <<entry>>

\* paperContext.selectionHistory.push(decision)
PushDecision(selectionHistory, entry) == Append(selectionHistory, entry)

\* selectionHistory.push(decision); the for loop over papersToDownload starts.
\* A history entry is the number of the iteration that produced the decision.
SelDecided ==
  /\ pc = "sel_decided"
  /\ paperContext' =
       [paperContext EXCEPT !.selectionHistory = PushDecision(@, iteration)]
  /\ dlIndex' = 1
  /\ pc' = "sel_for"
  /\ UNCHANGED <<now, startTime, agentStatuses, context, cur, iteration,
                 decision, additional, result, isClosed, clientGone, runs, browser, sse,
                 closeCalls, emitted, prevEmitted, history, lastFetch>>

\* the for loop goes on: no more papers, or the max paper limit is reached
ForLoopOver ==
  \/ dlIndex > Len(decision.papersToDownload)
  \/ paperContext.totalDownloaded >= maxPapers

\* Variant of AwaitDownload: the loop goes on while the download is in flight
DownloadNotAwaited(loop) == IF loop = "selection" THEN "sel_for" ELSE "add_for"

\* await downloadOpenAccessPdf(...): the loop is suspended until the
\* download has resolved
AwaitDownload(loop) == IF loop = "selection" THEN "sel_fetch" ELSE "add_fetch"

\* the next paper of the decision: the download is started
SelDownloadStart ==
  /\ pc = "sel_for"
  /\ ~ForLoopOver
  /\ Report(agentStatuses, startTime, <<Progress(3)>>, {})
  /\ lastFetch' = Some([title |-> decision.papersToDownload[dlIndex].title,
                        pdfUrl |-> decision.papersToDownload[dlIndex].pdfUrl,
                        wasDownloaded |->
                          MapHas(paperContext.downloadedContent,
                                 decision.papersToDownload[dlIndex].title),
                        loop |-> "selection",
                        outcome |-> "pending"])
  /\ pc' = AwaitDownload("selection")
  /\ UNCHANGED <<now, startTime, context, cur, paperContext, iteration,
                 decision, dlIndex, additional, result, clientGone, runs, browser, closeCalls>>

\* recentPapers.findIndex(p => p.title.toLowerCase() === title.toLowerCase())
FindIndexIgnoreCase(recentPapers, title) ==
  LET hits == {i \in 1..Len(recentPapers) :
                 ToLowerCase(recentPapers[i].title) = ToLowerCase(title)}
  IN IF hits = {} THEN 0 ELSE CHOOSE i \in hits : \A j \in hits : i <= j

\* recentPapers[paperIndex].fullText = text
WithFullText(recentPapers, title) ==
  LET i == FindIndexIgnoreCase(recentPapers, title)
  IN IF i = 0 THEN recentPapers
     ELSE [recentPapers EXCEPT ![i] = [@ EXCEPT !.fullText = TRUE]]

\* Variant of StoreDownloaded: the counter is not incremented
StoreDownloadedUncounted(pctx, title) ==
  [pctx EXCEPT !.downloadedContent = MapSet(@, title)]

\* downloadedContent.set(title, text); totalDownloaded++
StoreDownloaded(pctx, title) ==
  [pctx EXCEPT !.downloadedContent = MapSet(@, title),
               !.totalDownloaded = @ + 1]

\* Variant of AfterDownload: the paper is stored whatever the outcome
AfterDownloadAnyOutcome(pctx, title, outcome) == StoreDownloaded(pctx, title)

\* if (pdfBuffer) { ... if (text && text.length > 100) { store } }, and the
\* catch that only logs
AfterDownload(pctx, title, outcome) ==
  IF outcome = "ok" THEN StoreDownloaded(pctx, title) ELSE pctx

\* downloadOpenAccessPdf and parsePDFBuffer are back
SelDownloadDone(outcomes) ==
  /\ pc = "sel_fetch"
  /\ \E outcome \in outcomes :
       /\ lastFetch' = Some([ValueOf(lastFetch) EXCEPT !.outcome = outcome])
       /\ paperContext' = AfterDownload(paperContext, ValueOf(lastFetch).title, outcome)
       /\ IF outcome = "ok"
          THEN context' = [context EXCEPT !["professorProfile"] =
                             Some(WithFullText(ValueOf(@), ValueOf(lastFetch).title))]
          ELSE UNCHANGED context
  /\ dlIndex' = dlIndex + 1
  /\ pc' = "sel_for"
  /\ UNCHANGED <<now, startTime, agentStatuses, cur, iteration, decision,
                 additional, result, isClosed, clientGone, runs, browser, sse, closeCalls,
                 emitted, prevEmitted, history>>

\* the end of an iteration of the while loop: its decision and the position
\* of its for loop go out of scope
LeaveIteration ==
  /\ decision' = NoDecision
  /\ dlIndex' = 0
  /\ lastFetch' = NoFetch

\* const continueResult: what shouldContinueGathering resolved to
ContinueResult(b) == [shouldContinue |-> b, source |-> "continue"]

\* Variant of AfterContinueCheck: the loop goes on whatever the answer is
AfterContinueCheckIgnored(shouldContinue) == "sel_head"

\* if (!continueResult.shouldContinue) break
AfterContinueCheck(shouldContinue) ==
  IF shouldContinue THEN "sel_head" ELSE "add_start"

\* if (!decision.shouldSearchMore) break
SelStopByDecision ==
  /\ pc = "sel_for"
  /\ ForLoopOver
  /\ ~decision.shouldSearchMore
  /\ pc' = "add_start"
  /\ LeaveIteration
  /\ UNCHANGED <<now, startTime, agentStatuses, context, cur, paperContext,
                 iteration, additional, result, isClosed,
                 clientGone, runs, browser, sse, closeCalls, emitted, prevEmitted,
                 history>>

\* shouldContinueGathering answers from its hard limits, without the oracle
SelContinueHardLimit ==
  /\ pc = "sel_for"
  /\ ForLoopOver
  /\ decision.shouldSearchMore
  /\ IsSome(ContinueHardLimits(paperContext, iteration))
  /\ decision' = ContinueResult(ValueOf(ContinueHardLimits(paperContext, iteration)))
  /\ pc' = AfterContinueCheck(decision'.shouldContinue)
  /\ dlIndex' = 0
  /\ lastFetch' = NoFetch
  /\ UNCHANGED <<now, startTime, agentStatuses, context, cur, paperContext,
                 iteration, additional, result, isClosed,
                 clientGone, runs, browser, sse, closeCalls, emitted, prevEmitted,
                 history>>

\* shouldContinueGathering asks the oracle (its prompt reads userProfile.skills,
\* which selectPapers has read before in every run that gets here)
SelContinueAsk ==
  /\ pc = "sel_for"
  /\ ForLoopOver
  /\ decision.shouldSearchMore
  /\ ~IsSome(ContinueHardLimits(paperContext, iteration))
  /\ ValueOf(context["userProfile"]).wellTyped
  /\ Report(agentStatuses, startTime, <<Progress(3)>>, {})
  /\ pc' = "sel_cont"
  /\ LeaveIteration
  /\ UNCHANGED <<now, startTime, context, cur, paperContext, iteration,
                 additional, result, clientGone, runs, browser, closeCalls>>

\* the "enough?" oracle answers
SelContinueAnswer(answers) ==
  /\ pc = "sel_cont"
  /\ \E answer \in answers :
       decision' = ContinueResult(ContinueFromOracle(answer))
  /\ pc' = AfterContinueCheck(decision'.shouldContinue)
  /\ UNCHANGED <<now, startTime, agentStatuses, context, cur, paperContext,
                 iteration, dlIndex, additional, result, isClosed,
                 clientGone, runs, browser, sse, closeCalls, emitted, prevEmitted,
                 history, lastFetch>>

\* the "enough?" oracle fails
SelContinueFail ==
  /\ pc = "sel_cont"
  /\ decision' = ContinueResult(ContinueOnError(paperContext))
  /\ pc' = AfterContinueCheck(decision'.shouldContinue)
  /\ UNCHANGED <<now, startTime, agentStatuses, context, cur, paperContext,
                 iteration, dlIndex, additional, result, isClosed,
                 clientGone, runs, browser, sse, closeCalls, emitted, prevEmitted,
                 history, lastFetch>>

(***************************************************************************)
(* runPipeline, stage 3b: the additional papers loop                       *)
(***************************************************************************)
\* the status notice, allDownloadedPapers, additionalPaperResults, counters
AddStart ==
  /\ pc = "add_start"
  /\ Report(agentStatuses, startTime, <<Progress(3)>>, {})
  /\ additional' = [allDownloadedPapers |-> paperContext.downloadedContent,
                    results |-> <<>>,
                    attempts |-> <<>>,
                    downloaded |-> 0,
                    iteration |-> 0,
                    decision |-> SuggestOnError,
                    index |-> 0,
                    found |-> tEmpty]
  /\ pc' = "add_head"
  /\ decision' = NoDecision
  /\ UNCHANGED <<now, startTime, context, cur, paperContext, iteration,
                 dlIndex, result, clientGone, runs, browser, closeCalls, lastFetch>>

\* the end of an iteration of the while loop: its decision goes out of scope
LeaveAddIteration(add) ==
  [add EXCEPT !.decision = SuggestOnError, !.index = 0, !.found = tEmpty]

AddLoopCondition ==
  /\ additional.iteration < maxAdditionalIterations
  /\ additional.downloaded < maxAdditionalPapers

\* the while condition fails
AddLoopExhausted ==
  /\ pc = "add_head"
  /\ ~AddLoopCondition
  /\ pc' = "add_exit"
  /\ UNCHANGED <<now, startTime, agentStatuses, context, cur, paperContext,
                 iteration, decision, dlIndex, additional, result, isClosed,
                 clientGone, runs, browser, sse, closeCalls, emitted, prevEmitted,
                 history, lastFetch>>

\* additionalIteration++, suggestAdditionalPapers up to its oracle call
AddSuggestAsk ==
  /\ pc = "add_head"
  /\ AddLoopCondition
  /\ ValueOf(context["userProfile"]).wellTyped
  /\ additional' = [additional EXCEPT !.iteration = @ + 1]
  /\ Report(agentStatuses, startTime, <<Progress(3)>>, {})
  /\ pc' = "add_oracle"
  /\ UNCHANGED <<now, startTime, context, cur, paperContext, iteration,
                 decision, dlIndex, result, clientGone, runs, browser, closeCalls, lastFetch>>

\* the same, but building the prompt throws outside of the try block
AddSuggestThrow ==
  /\ pc = "add_head"
  /\ AddLoopCondition
  /\ ~ValueOf(context["userProfile"]).wellTyped
  /\ Catch(<<Progress(3)>>, "TypeError")

\* the suggestion oracle answers
AddOracleAnswer(answers) ==
  /\ pc = "add_oracle"
  /\ \E raw \in answers :
       additional' = [additional EXCEPT !.decision = ValidateSuggestions(raw)]
  /\ Report(agentStatuses, startTime, <<Progress(3)>>, {})
  /\ pc' = "add_decided"
  /\ UNCHANGED <<now, startTime, context, cur, paperContext, iteration,
                 decision, dlIndex, result, clientGone, runs, browser, closeCalls, lastFetch>>

\* the suggestion oracle fails
AddOracleFail ==
  /\ pc = "add_oracle"
  /\ additional' = [additional EXCEPT !.decision = SuggestOnError]
  /\ pc' = "add_decided"
  /\ UNCHANGED <<now, startTime, agentStatuses, context, cur, paperContext,
                 iteration, decision, dlIndex, result, isClosed, clientGone, runs, browser,
                 sse, closeCalls, emitted, prevEmitted, history,
                 lastFetch>>

\* if (suggestedPapers.length === 0) break; else the for loop starts
AddDecided ==
  /\ pc = "add_decided"
  /\ IF Len(additional.decision.suggestedPapers) = 0
     THEN /\ pc' = "add_exit"
          /\ additional' = LeaveAddIteration(additional)
     ELSE /\ pc' = "add_for"
          /\ additional' = [additional EXCEPT !.index = 1]
  /\ UNCHANGED <<now, startTime, agentStatuses, context, cur, paperContext,
                 iteration, decision, dlIndex, result, isClosed, clientGone, runs, browser,
                 sse, closeCalls, emitted, prevEmitted, history,
                 lastFetch>>

\* Variant of AddForLoopOver: the for loop only ends with the list
AddForLoopOverListOnly ==
  additional.index > Len(additional.decision.suggestedPapers)

\* the for loop is over: no more suggestions, or the limit of additional
\* papers is reached
AddForLoopOver ==
  \/ additional.index > Len(additional.decision.suggestedPapers)
  \/ additional.downloaded >= maxAdditionalPapers

\* the next suggestion: searchPaperByTitle is called (attempts is
\* bookkeeping: the suggestions the for loop has taken up so far)
AddSearchStart ==
  /\ pc = "add_for"
  /\ ~AddForLoopOver
  /\ IsSome(additional.decision.suggestedPapers[additional.index].title)
  /\ Report(agentStatuses, startTime, <<Progress(3)>>, {})
  /\ additional' = [additional EXCEPT !.attempts =
                      Append(@, additional.decision.suggestedPapers[additional.index])]
  /\ pc' = "add_search"
  /\ UNCHANGED <<now, startTime, context, cur, paperContext, iteration,
                 decision, dlIndex, result, clientGone, runs, browser, closeCalls,
                 lastFetch>>

\* suggestion.title.slice(0, 35) on a suggestion without title throws before
\* updateStatus is called and outside of the try block of the for loop
AddSearchThrow ==
  /\ pc = "add_for"
  /\ ~AddForLoopOver
  /\ ~IsSome(additional.decision.suggestedPapers[additional.index].title)
  /\ Catch(<<>>, "TypeError")

\* Variant of PushResult: only a success is recorded
PushResultSuccessOnly(add, success, error) ==
  IF success
  THEN [add EXCEPT !.results = Append(@, [suggestion |-> add.decision.suggestedPapers[add.index],
                                          success |-> success, error |-> error]),
                   !.index = @ + 1]
  ELSE [add EXCEPT !.index = @ + 1]

\* additionalPaperResults.push(result), next suggestion
PushResult(add, success, error) ==
  [add EXCEPT !.results = Append(@, [suggestion |-> add.decision.suggestedPapers[add.index],
                                     success |-> success, error |-> error]),
              !.index = @ + 1]

\* searchPaperByTitle is back with nothing usable, or rejected
AddSearchMiss(outcomes) ==
  /\ pc = "add_search"
  /\ \E o \in {x \in outcomes : x.kind # "found"} :
       additional' = PushResult(additional, FALSE,
                                IF o.kind = "throw" THEN "thrown" ELSE "not found")
  /\ pc' = "add_for"
  /\ UNCHANGED <<now, startTime, agentStatuses, context, cur, paperContext,
                 iteration, decision, dlIndex, result, isClosed, clientGone, runs, browser,
                 sse, closeCalls, emitted, prevEmitted, history,
                 lastFetch>>

\* searchPaperByTitle found a paper with a PDF URL: the download is started
AddSearchFound(outcomes) ==
  /\ pc = "add_search"
  /\ \E o \in {x \in outcomes : x.kind = "found"} :
       /\ additional' = [additional EXCEPT !.found = o.title]
       /\ lastFetch' = Some([title |-> o.title, pdfUrl |-> Http(50),
                             wasDownloaded |->
                               MapHas(paperContext.downloadedContent, o.title),
                             loop |-> "additional",
                             outcome |-> "pending"])
  /\ Report(agentStatuses, startTime, <<Progress(3)>>, {})
  /\ pc' = AwaitDownload("additional")
  /\ UNCHANGED <<now, startTime, context, cur, paperContext, iteration,
                 decision, dlIndex, result, clientGone, runs, browser, closeCalls>>

\* the error recorded for a download that did not give a text
FetchError(outcome) ==
  CASE outcome = "null" -> "PDF download failed"
    [] outcome = "short" -> "Could not extract text from PDF"
    [] outcome = "parseThrow" -> "thrown"

\* downloadOpenAccessPdf and parsePDFBuffer are back
AddDownloadDone(outcomes) ==
  /\ pc = "add_fetch"
  /\ \E outcome \in outcomes :
       /\ lastFetch' = Some([ValueOf(lastFetch) EXCEPT !.outcome = outcome])
       /\ IF outcome = "ok"
          THEN /\ paperContext' = [paperContext EXCEPT !.downloadedContent =
                                     MapSet(@, additional.found)]
               /\ additional' =
                    [PushResult(additional, TRUE, "none") EXCEPT
                       !.allDownloadedPapers = Append(@, additional.found),
                       !.downloaded = @ + 1]
          ELSE /\ UNCHANGED paperContext
               /\ additional' = PushResult(additional, FALSE, FetchError(outcome))
  /\ pc' = "add_for"
  /\ UNCHANGED <<now, startTime, agentStatuses, context, cur, iteration,
                 decision, dlIndex, result, isClosed, clientGone, runs, browser, sse,
                 closeCalls, emitted, prevEmitted, history>>

\* after the for loop: if (!shouldSuggestMore) break
AddForEnd ==
  /\ pc = "add_for"
  /\ AddForLoopOver
  /\ pc' = IF additional.decision.shouldSuggestMore THEN "add_head" ELSE "add_exit"
  /\ additional' = LeaveAddIteration(additional)
  /\ lastFetch' = NoFetch
  /\ UNCHANGED <<now, startTime, agentStatuses, context, cur, paperContext,
                 iteration, decision, dlIndex, result, isClosed,
                 clientGone, runs, browser, sse, closeCalls, emitted, prevEmitted,
                 history>>

\* stage 3 is complete, stage 4 is invoked.  The locals of the paper
\* selection are not read after this point and are dropped.
PaperSelectionComplete ==
  /\ pc = "add_exit"
  /\ Report(agentStatuses, startTime, <<Complete(3), Running(4), Progress(4)>>, {4})
  /\ cur' = 4
  /\ pc' = "stage"
  /\ paperContext' = NoPaperContext
  /\ decision' = NoDecision
  /\ additional' = NoAdditional
  /\ iteration' = 0
  /\ dlIndex' = 0
  /\ lastFetch' = NoFetch
  /\ UNCHANGED <<now, startTime, context, result, clientGone, runs, browser, closeCalls>>

(***************************************************************************)
(* Specification                                                           *)
(***************************************************************************)
Next ==
  \/ Tick
  \/ ClientDisconnect
  \/ RunPipelineStart
  \/ StageProgress
  \/ StageReturn
  \/ ProfessorReturn(ProfessorProfiles)
  \/ LastStageReturn
  \/ StageThrow
  \/ SelectPapersEarly
  \/ SelectPapersAsk
  \/ SelectPapersThrow
  \/ SelOracleAnswer(RawDecisions)
  \/ SelOracleFail
  \/ SelDecided
  \/ SelDownloadStart
  \/ SelDownloadDone(SomeFetchOutcomes)
  \/ SelStopByDecision
  \/ SelContinueHardLimit
  \/ SelContinueAsk
  \/ SelContinueAnswer(RawContinues)
  \/ SelContinueFail
  \/ AddStart
  \/ AddLoopExhausted
  \/ AddSuggestAsk
  \/ AddSuggestThrow
  \/ AddOracleAnswer(RawSuggestions)
  \/ AddOracleFail
  \/ AddDecided
  \/ AddSearchStart
  \/ AddSearchMiss(SomeSearchOutcomes)
  \/ AddSearchFound(SomeSearchOutcomes)
  \/ AddDownloadDone(SomeFetchOutcomes)
  \/ AddForEnd
  \/ PaperSelectionComplete
  \/ HandlerFinish

Spec == Init /\ [][Next]_vars

(***************************************************************************)
(* The paper selection loop on its own: the clock stands still and the     *)
(* consumer stays; the profiles, the answers of the selection oracle and   *)
(* the outcomes of its downloads are the wider ones                        *)
(***************************************************************************)
NextGather ==
  \/ RunPipelineStart
  \/ StageProgress
  \/ StageReturn
  \/ ProfessorReturn(GatherProfiles)
  \/ LastStageReturn
  \/ StageThrow
  \/ SelectPapersEarly
  \/ SelectPapersAsk
  \/ SelectPapersThrow
  \/ SelOracleAnswer(GatherDecisions)
  \/ SelOracleFail
  \/ SelDecided
  \/ SelDownloadStart
  \/ SelDownloadDone(FetchOutcomes)
  \/ SelStopByDecision
  \/ SelContinueHardLimit
  \/ SelContinueAsk
  \/ SelContinueAnswer(RawContinues)
  \/ SelContinueFail
  \/ AddStart
  \/ AddLoopExhausted
  \/ AddSuggestAsk
  \/ AddSuggestThrow
  \/ AddOracleAnswer(RawSuggestions)
  \/ AddOracleFail
  \/ AddDecided
  \/ AddSearchStart
  \/ AddSearchMiss(SomeSearchOutcomes)
  \/ AddSearchFound(SomeSearchOutcomes)
  \/ AddDownloadDone(SomeFetchOutcomes)
  \/ AddForEnd
  \/ PaperSelectionComplete
  \/ HandlerFinish

SpecGather == Init /\ [][NextGather]_vars

(***************************************************************************)
(* Two calls of runPipeline, interleaved at their awaits.  Each call is    *)
(* followed from one await to the next, along the path on which the stages *)
(* resolve or reject, the selection and suggestion oracles are unavailable *)
(* (fallback decision, no suggestion) and every download succeeds or       *)
(* yields nothing.  Time is not followed (timeElapsed stays 0).            *)
(***************************************************************************)
\* Variant of Owner: the objects live at module level, one set for all calls
OwnerShared(r) == "a"

\* the objects call r works on: the ones it created itself on entry, since
\* context, agentStatuses and paperContext are locals of runPipeline
Owner(r) == r

\* what the stages resolve to for the input of call r
RunProfile(r) == IF r = "a" THEN ProfThreeSeeds ELSE ProfMixedLocators
ArtifactOf(step, r) ==
  IF step = 1 THEN [wellTyped |-> TRUE, of |-> r]
  ELSE IF step = 2 THEN RunProfile(r)
  ELSE [by |-> AGENTS[step], of |-> r]

\* updateStatus calls: the table is updated, the statuses go to onStatus
Emitting(st, calls) ==
  LET u == RunUpdates(st.obj.agentStatuses, calls, ClockOrigin, ClockOrigin)
  IN [frame |-> [st.frame EXCEPT !.emitted = @ \o u.events],
      obj |-> [st.obj EXCEPT !.agentStatuses = u.statuses]]

\* entry of runPipeline up to the await of parseCV
ResumeCall(st) ==
  Emitting([frame |-> [st.frame EXCEPT !.pc = "stage", !.cur = 1],
            obj |-> NewObjects],
           <<Running(1), Progress(1)>>)

\* the catch block
ResumeThrow(st, e) ==
  LET failing == FirstRunning(st.obj.agentStatuses)
      after == IF failing = 0 THEN st ELSE Emitting(st, <<Failed(failing, e)>>)
  IN [frame |-> [after.frame EXCEPT !.pc = "returned",
                                    !.result = Some(FailureResult(st.obj.context, e))],
      obj |-> after.obj]

\* the awaited stage resolves, up to the next await
ResumeStage(st, r) ==
  LET k == st.frame.cur
      stored == [st EXCEPT !.obj.context[ContextField[k]] = Some(ArtifactOf(k, r))]
  IN IF k = NumAgents
     THEN LET done == Emitting(stored, <<Complete(k)>>)
          IN [done EXCEPT !.frame.pc = "returned",
                          !.frame.result = Some(SuccessResult(stored.obj.context))]
     ELSE IF k = 2
     THEN Emitting([stored EXCEPT
                      !.obj.paperContext =
                         SeedDownloaded(InitialPaperContext(RunProfile(r)), RunProfile(r)),
                      !.frame.cur = 3,
                      !.frame.pc = "sel_oracle"],
                   <<Complete(2), Running(3), Progress(3), Progress(3), Progress(3)>>)
     ELSE Emitting([stored EXCEPT !.frame.cur = k + 1],
                   <<Complete(k), Running(k + 1), Progress(k + 1)>>)

\* the for loop over the decision's papers: the next download is awaited, or
\* the loop is over, the while loop is left (shouldSearchMore is false) and
\* suggestAdditionalPapers is awaited
NextDownload(st) ==
  IF st.frame.todo = <<>> \/ st.obj.paperContext.totalDownloaded >= maxPapers
  THEN Emitting([st EXCEPT !.frame.pc = "add_oracle", !.frame.todo = <<>>],
                <<Progress(3), Progress(3)>>)
  ELSE Emitting([st EXCEPT !.frame.pc = "sel_fetch"], <<Progress(3)>>)

\* an oracle call rejects: the fallback decision, or no suggestion and the
\* end of stage 3
ResumeOracleFail(st) ==
  IF st.frame.pc = "sel_oracle"
  THEN NextDownload(
         [st EXCEPT !.frame.todo = FallbackDecision(st.obj.paperContext).papersToDownload,
                    !.obj.paperContext.selectionHistory = Append(@, 1)])
  ELSE Emitting([st EXCEPT !.frame.pc = "stage", !.frame.cur = 4],
                <<Complete(3), Running(4), Progress(4)>>)

\* downloadOpenAccessPdf and parsePDFBuffer are back
ResumeDownload(st, outcome) ==
  LET title == Head(st.frame.todo).title
      stored ==
        IF outcome = "ok"
        THEN [st EXCEPT !.obj.paperContext = StoreDownloaded(@, title),
                        !.obj.context["professorProfile"] =
                           Some(WithFullText(ValueOf(@), title))]
        ELSE st
  IN NextDownload([stored EXCEPT !.frame.todo = Tail(@)])

\* call r goes on after `outcome`
Resume(st, r, outcome) ==
  CASE outcome = "call" -> ResumeCall(st)
    [] outcome = "return" -> ResumeStage(st, r)
    [] outcome = "throw" -> ResumeThrow(st, "Error: Gemini API call failed")
    [] outcome = "oracleFail" -> ResumeOracleFail(st)
    [] outcome \in SomeFetchOutcomes -> ResumeDownload(st, outcome)

\* what call r would be after these outcomes if it ran alone
RECURSIVE Replay(_, _)
Replay(r, trace) ==
  IF trace = <<>> THEN [frame |-> InitialFrame, obj |-> NewObjects]
  ELSE Resume(Replay(r, SubSeq(trace, 1, Len(trace) - 1)), r, trace[Len(trace)])

pipelineVars ==
  <<pc, now, startTime, agentStatuses, context, cur, paperContext, iteration,
    decision, dlIndex, additional, result, isClosed, clientGone, sse,
    closeCalls, emitted, prevEmitted, history, lastFetch>>

Apply(r, outcome) ==
  LET nx == Resume([frame |-> runs.frame[r], obj |-> runs.obj[Owner(r)]], r, outcome)
  IN /\ runs' = [frame |-> [runs.frame EXCEPT ![r] = nx.frame],
                 obj |-> [runs.obj EXCEPT ![Owner(r)] = nx.obj],
                 trace |-> [runs.trace EXCEPT ![r] = Append(@, outcome)]]
     /\ UNCHANGED <<pipelineVars, browser>>

RunPipelineCalled(r) ==
  /\ runs.frame[r].pc = "idle"
  /\ Apply(r, "call")

AwaitedStageReturns(r) ==
  /\ runs.frame[r].pc = "stage"
  /\ Apply(r, "return")

AwaitedStageThrows(r) ==
  /\ runs.frame[r].pc = "stage"
  /\ Apply(r, "throw")

AwaitedOracleFails(r) ==
  /\ runs.frame[r].pc \in {"sel_oracle", "add_oracle"}
  /\ Apply(r, "oracleFail")

AwaitedDownloadDone(r) ==
  /\ runs.frame[r].pc = "sel_fetch"
  /\ \E outcome \in SomeFetchOutcomes : Apply(r, outcome)

NextTwoRuns ==
  \/ \E r \in RunIds : RunPipelineCalled(r)
  \/ \E r \in RunIds : AwaitedStageReturns(r)
  \/ \E r \in RunIds : AwaitedStageThrows(r)
  \/ \E r \in RunIds : AwaitedOracleFails(r)
  \/ \E r \in RunIds : AwaitedDownloadDone(r)

SpecTwoRuns == Init /\ [][NextTwoRuns]_vars

(***************************************************************************)
(* Progress.  The steps runPipeline and the handler take by themselves: a  *)
(* continuation that is ready to run is run by the event loop.  The return *)
(* of an awaited stage, oracle call (callGemini), search or download       *)
(* (fetch) is not among them: none of these calls has a timeout or an      *)
(* abort signal, so nothing in the program makes it end.                   *)
(***************************************************************************)
ProgramStep ==
  \/ RunPipelineStart
  \/ SelectPapersEarly
  \/ SelectPapersAsk
  \/ SelectPapersThrow
  \/ SelDecided
  \/ SelDownloadStart
  \/ SelStopByDecision
  \/ SelContinueHardLimit
  \/ SelContinueAsk
  \/ AddStart
  \/ AddLoopExhausted
  \/ AddSuggestAsk
  \/ AddSuggestThrow
  \/ AddDecided
  \/ AddSearchStart
  \/ AddForEnd
  \/ PaperSelectionComplete
  \/ HandlerFinish

\* the pipeline with the inputs of Next, without the clock and the client
NextPipeline ==
  \/ RunPipelineStart
  \/ StageProgress
  \/ StageReturn
  \/ ProfessorReturn(ProfessorProfiles)
  \/ LastStageReturn
  \/ StageThrow
  \/ SelectPapersEarly
  \/ SelectPapersAsk
  \/ SelectPapersThrow
  \/ SelOracleAnswer(RawDecisions)
  \/ SelOracleFail
  \/ SelDecided
  \/ SelDownloadStart
  \/ SelDownloadDone(SomeFetchOutcomes)
  \/ SelStopByDecision
  \/ SelContinueHardLimit
  \/ SelContinueAsk
  \/ SelContinueAnswer(RawContinues)
  \/ SelContinueFail
  \/ AddStart
  \/ AddLoopExhausted
  \/ AddSuggestAsk
  \/ AddSuggestThrow
  \/ AddOracleAnswer(RawSuggestions)
  \/ AddOracleFail
  \/ AddDecided
  \/ AddSearchStart
  \/ AddSearchMiss(SomeSearchOutcomes)
  \/ AddSearchFound(SomeSearchOutcomes)
  \/ AddDownloadDone(SomeFetchOutcomes)
  \/ AddForEnd
  \/ PaperSelectionComplete
  \/ HandlerFinish

SpecProgress == Init /\ [][NextPipeline]_vars /\ WF_vars(ProgramStep)

(***************************************************************************)
(* The paper selection with ten candidates, downloads that all succeed and *)
(* oracles that always recommend two candidates and ask to go on, up to    *)
(* the end of the main loop                                                *)
(***************************************************************************)
NextTenCandidates ==
  \/ RunPipelineStart
  \/ StageReturn
  \/ ProfessorReturn({ProfTenCandidates})
  \/ SelectPapersAsk
  \/ SelOracleAnswer(TwoValidAndContinue(paperContext))
  \/ SelDecided
  \/ SelDownloadStart
  \/ SelDownloadDone({"ok"})
  \/ SelContinueHardLimit
  \/ SelContinueAsk
  \/ SelContinueAnswer({Some(TRUE)})

SpecTenCandidates == Init /\ [][NextTenCandidates]_vars

(***************************************************************************)
(* The additional-papers loop: the main loop with the small inputs, the    *)
(* suggestion oracle, the search and the downloads with all their outcomes *)
(***************************************************************************)
NextAdditional ==
  \/ RunPipelineStart
  \/ StageReturn
  \/ ProfessorReturn(ProfessorProfiles)
  \/ LastStageReturn
  \/ SelectPapersEarly
  \/ SelectPapersAsk
  \/ SelectPapersThrow
  \/ SelOracleAnswer(SparseDecisions)
  \/ SelOracleFail
  \/ SelDecided
  \/ SelDownloadStart
  \/ SelDownloadDone(SomeFetchOutcomes)
  \/ SelStopByDecision
  \/ SelContinueHardLimit
  \/ SelContinueAsk
  \/ SelContinueAnswer(RawContinues)
  \/ AddStart
  \/ AddLoopExhausted
  \/ AddSuggestAsk
  \/ AddSuggestThrow
  \/ AddOracleAnswer(AdditionalSuggestions)
  \/ AddOracleFail
  \/ AddDecided
  \/ AddSearchStart
  \/ AddSearchThrow
  \/ AddSearchMiss(AdditionalSearchOutcomes)
  \/ AddSearchFound(AdditionalSearchOutcomes)
  \/ AddDownloadDone(FetchOutcomes)
  \/ AddForEnd
  \/ PaperSelectionComplete
  \/ HandlerFinish

SpecAdditional == Init /\ [][NextAdditional]_vars

(***************************************************************************)
(* tools/browser.ts: getBrowser and closeBrowser, called from concurrent   *)
(* runs.  Every await is a point at which another call can run.            *)
(***************************************************************************)
\* browserInstance.isConnected()
IsConnected(br) ==
  br.browserInstance # 0 /\ br.state[br.browserInstance] = "connected"

\* chromium.launch calls that have not resolved
Launching(br) == {c \in RunIds : br.call[c].pc = "launching"}

\* getBrowser up to its return or to the await of chromium.launch
GetBrowser(c) ==
  /\ browser.call[c].pc = "idle"
  /\ IF IsConnected(browser)
     THEN browser' = [browser EXCEPT
                        !.call[c] = [pc |-> "holding", browser |-> browser.browserInstance]]
     ELSE /\ browser.launched + browser.rejected + Cardinality(Launching(browser))
               < MaxLaunches
          /\ browser' = [browser EXCEPT !.browserInstance = 0,
                                         !.call[c] = [pc |-> "launching", browser |-> 0]]
  /\ UNCHANGED <<pipelineVars, runs>>

\* chromium.launch resolves: browserInstance = the new browser, the
\* 'disconnected' handler is registered, the browser is returned
LaunchReturns(c) ==
  /\ browser.call[c].pc = "launching"
  /\ browser' = [browser EXCEPT
                   !.launched = @ + 1,
                   !.state[browser.launched + 1] = "connected",
                   !.browserInstance = browser.launched + 1,
                   !.call[c] = [pc |-> "holding", browser |-> browser.launched + 1]]
  /\ UNCHANGED <<pipelineVars, runs>>

\* chromium.launch rejects: getBrowser rejects
LaunchThrows(c) ==
  /\ browser.call[c].pc = "launching"
  /\ browser' = [browser EXCEPT !.rejected = @ + 1,
                                !.call[c] = [pc |-> "idle", browser |-> 0]]
  /\ UNCHANGED <<pipelineVars, runs>>

\* the caller of getBrowser is done with the browser it was given
BrowserUseEnds(c) ==
  /\ browser.call[c].pc = "holding"
  /\ browser' = [browser EXCEPT !.call[c] = [pc |-> "idle", browser |-> 0]]
  /\ UNCHANGED <<pipelineVars, runs>>

\* a browser disconnects: its handler sets browserInstance = null
BrowserDisconnected(b) ==
  /\ browser.state[b] = "connected"
  /\ browser' = [browser EXCEPT !.state[b] = "disconnected", !.browserInstance = 0]
  /\ UNCHANGED <<pipelineVars, runs>>

\* closeBrowser up to the await of browserInstance.close()
CloseBrowser ==
  /\ browser.closing = 0
  /\ browser.browserInstance # 0
  /\ browser' = [browser EXCEPT !.closing = browser.browserInstance]
  /\ UNCHANGED <<pipelineVars, runs>>

\* browserInstance.close() resolves: browserInstance = null
CloseReturns ==
  /\ browser.closing # 0
  /\ browser' = [browser EXCEPT !.state[browser.closing] = "disconnected",
                                !.browserInstance = 0,
                                !.closing = 0]
  /\ UNCHANGED <<pipelineVars, runs>>

NextBrowser ==
  \/ \E c \in RunIds : GetBrowser(c)
  \/ \E c \in RunIds : LaunchReturns(c)
  \/ \E c \in RunIds : LaunchThrows(c)
  \/ \E c \in RunIds : BrowserUseEnds(c)
  \/ \E b \in 1..MaxLaunches : BrowserDisconnected(b)
  \/ CloseBrowser
  \/ CloseReturns

SpecBrowser == Init /\ [][NextBrowser]_vars

(***************************************************************************)
(* Vocabulary of the properties                                            *)
(***************************************************************************)
\* the control points of stage 3, where paperContext exists
SelectionPoints ==
  {"sel_head", "sel_oracle", "sel_decided", "sel_for", "sel_fetch", "sel_cont",
   "add_start", "add_head", "add_oracle", "add_decided", "add_for",
   "add_search", "add_fetch", "add_exit"}

\* the latest statuses handed to onStatus, preceded by the one before them
EmittedWindow ==
  (IF IsSome(prevEmitted) THEN <<ValueOf(prevEmitted)>> ELSE <<>>) \o emitted

TerminalStatuses == {"complete", "error"}

Returned == IsSome(result)
Failure == IsSome(result) /\ ~ValueOf(result).success
Success == IsSome(result) /\ ValueOf(result).success

\* the result carries the artifact `field`
ResultHas(field) ==
  /\ field \in DOMAIN ValueOf(result)
  /\ IsSome(ValueOf(result)[field])

SlotsWith(status) == {s \in Steps : agentStatuses[s].status = status}

\* the stages that produce an artifact of the run context
ArtifactSteps == Steps \ {3}

(***************************************************************************)
(* C1                                                                      *)
(***************************************************************************)
\* C1: throughout the paper selection stage, from the seeding of the paper
\* context on, totalDownloaded never exceeds maxPapers.
C1_TotalDownloadedWithinMax ==
  pc \in SelectionPoints => paperContext.totalDownloaded <= paperContext.maxPapers

(***************************************************************************)
(* C2                                                                      *)
(***************************************************************************)
\* C2: a download attempt for a title that is already a key of
\* downloadedContent does not increase totalDownloaded and leaves the keys of
\* downloadedContent as they were (one entry for the title).
C2_RepeatedTitleNotCounted ==
  [][(pc = "sel_fetch" /\ ValueOf(lastFetch).wasDownloaded /\ pc' = "sel_for")
       => /\ paperContext'.totalDownloaded = paperContext.totalDownloaded
          /\ paperContext'.downloadedContent = paperContext.downloadedContent]_vars

C4_FailureShape ==
  Failure =>
    /\ history[cur].errors = 1
    /\ \A s \in Steps \ {cur} : history[s].errors = 0
    /\ emitted # <<>>
    /\ emitted[Len(emitted)].step = cur
    /\ emitted[Len(emitted)].status = "error"
    /\ IsSome(emitted[Len(emitted)].error)
    /\ emitted[Len(emitted)].error = ValueOf(result).error
    /\ history[cur].invoked = 1
    /\ \A s \in Steps : s > cur => /\ history[s].invoked = 0
                                   /\ agentStatuses[s].status = "pending"

C4_ErrorOnceThenNothing ==
  [][/\ C4_FailureShape'
     /\ Returned => UNCHANGED <<emitted, prevEmitted, history, agentStatuses, cur>>]_vars

\* stage 5 threw after a progress notice
C4_Witness ==
  /\ Failure
  /\ cur = 5
  /\ history[5].errors = 1
  /\ agentStatuses[6].status = "pending"
  /\ pc = "finished"

(***************************************************************************)
(* C5                                                                      *)
(***************************************************************************)
\* C5: the step ordinals of the emitted statuses never decrease, and a status
\* for stage N+1 is emitted only after a status with a terminal status
\* ('complete' or 'error') for stage N.
C5_StageOrder ==
  /\ \A i \in 1..(Len(EmittedWindow) - 1) :
       /\ EmittedWindow[i].step <= EmittedWindow[i + 1].step
       /\ EmittedWindow[i].step < EmittedWindow[i + 1].step
            => /\ EmittedWindow[i + 1].step = EmittedWindow[i].step + 1
               /\ EmittedWindow[i].status \in TerminalStatuses
  /\ (emitted # <<>> /\ ~IsSome(prevEmitted)) => emitted[1].step = 1
  /\ \A i \in 1..Len(emitted) :
       emitted[i].step > 1 =>
         \/ \E j \in 1..(i - 1) : /\ emitted[j].step = emitted[i].step - 1
                                  /\ emitted[j].status \in TerminalStatuses
         \/ history[emitted[i].step - 1].terminals
              > CountStatus(emitted, emitted[i].step - 1, TerminalStatuses)

\* stage 4 completes and stage 5 starts in one step
C5_Witness ==
  /\ Len(emitted) = 3
  /\ emitted[1].step = 4 /\ emitted[1].status = "complete"
  /\ emitted[2].step = 5 /\ emitted[2].status = "running"

(***************************************************************************)
(* C6                                                                      *)
(***************************************************************************)
\* C6 as stated: the event stream of a request is some 'status' events
\* followed by exactly one terminal event, and no 'status' event follows it.
C6_ExactlyOneTerminalEvent ==
  /\ ~sse.late
  /\ pc = "finished" => sse.terminals = 1

\* C6, amended: the event stream is some 'status' events followed by at most
\* one terminal event, which is the last event; the terminal event is there
\* when the consumer is still reading at the end of the run, and it is
\* missing exactly when a write to the stream has failed (the consumer went
\* away), in which case the handler did not close the stream itself.
C6_AtMostOneTerminalEvent ==
  /\ ~sse.late
  /\ sse.terminals <= 1
  /\ sse.terminals = 1 <=> sse.last = "complete"
  /\ pc # "finished" => sse.terminals = 0
  /\ pc = "finished" => /\ sse.terminals = closeCalls
                        /\ ~clientGone => sse.terminals = 1
                        /\ sse.terminals = 0 => clientGone

\* a run that ended with the terminal event after status events
C6_Witness ==
  /\ pc = "finished"
  /\ sse.terminals = 1
  /\ sse.statuses
  /\ Failure

C8_NothingFabricated ==
  Failure =>
    /\ \A s \in ArtifactSteps \ {1} :
         IsSome(ValueOf(result)[ContextField[s]]) => agentStatuses[s].status = "complete"
    /\ \A s \in ArtifactSteps \ {1} :
         s >= cur => ~IsSome(ValueOf(result)[ContextField[s]])

\* stage 5 failed: the profile and the fit analysis are there, the email not
C8_Witness ==
  /\ Failure
  /\ cur = 5
  /\ agentStatuses[5].status = "error"
  /\ ResultHas("fitAnalysis")
  /\ ~ResultHas("email")

(***************************************************************************)
(* C9                                                                      *)
(***************************************************************************)
\* C9: startTime is captured once; the timeElapsed of every emitted status is
\* the whole number of seconds between startTime and the clock at emission
\* (rounded down); over the emitted sequence timeElapsed never decreases.
C9_ElapsedIsFloorOfRunTime ==
  [][/\ pc # "request" => startTime' = startTime
     /\ (emitted' # emitted \/ prevEmitted' # prevEmitted) =>
          \A i \in 1..Len(emitted') :
            /\ emitted'[i].timeElapsed * 1000 <= now' - startTime'
            /\ now' - startTime' < (emitted'[i].timeElapsed + 1) * 1000
     /\ \A i \in 1..(Len(EmittedWindow') - 1) :
          EmittedWindow'[i].timeElapsed <= EmittedWindow'[i + 1].timeElapsed]_vars

\* a status emitted more than a second after the start, right after one
\* emitted within the first second
C9_Witness ==
  /\ IsSome(prevEmitted)
  /\ ValueOf(prevEmitted).timeElapsed = 0
  /\ emitted # <<>>
  /\ emitted[1].timeElapsed = 1
  /\ now - startTime > 1000

MainLoopPoints ==
  {"sel_head", "sel_oracle", "sel_decided", "sel_for", "sel_fetch", "sel_cont"}

\* C11: the main selection loop runs at most maxIterations iterations:
\* selectPapers is called only at the head of the loop, every call starts a
\* new iteration whose number is at most maxIterations, there are never more
\* decisions in selectionHistory than iterations, and after iteration number
\* maxIterations the head of the loop is not reached again (the loop exits).
C11_AtMostMaxIterations ==
  [][/\ pc' \in SelectionPoints =>
          /\ iteration' <= maxIterations
          /\ Len(paperContext'.selectionHistory) <= iteration'
     /\ (pc = "sel_head" /\ pc' \in {"sel_oracle", "sel_decided"}) =>
          iteration' = iteration + 1
     /\ pc' = "sel_oracle" => pc \in {"sel_head", "sel_oracle"}
     /\ (pc \in MainLoopPoints /\ pc' \in MainLoopPoints /\ pc # "sel_head") =>
          iteration' = iteration
     /\ pc' = "sel_head" => iteration' < maxIterations]_vars

\* the loop was left after maxIterations iterations, each with a decision
C11_Witness ==
  /\ pc = "add_start"
  /\ iteration = maxIterations
  /\ Len(paperContext.selectionHistory) = maxIterations

\* the titles the download loop of the current iteration goes through
DecisionTitles ==
  {decision.papersToDownload[i].title : i \in 1..Len(decision.papersToDownload)}

\* C12: when the decision call has failed and the main loop is about to end
\* with an empty pool, no unfetched candidate with an http PDF locator has
\* been left untried: each one was among the downloads of the fallback
\* decision (so a candidate whose download would succeed gives a non-empty
\* pool).
C12_FallbackTriesEveryCandidate ==
  (/\ pc = "sel_for"
   /\ decision.source = "fallback"
   /\ ForLoopOver
   /\ paperContext.downloadedContent = <<>>) =>
     \A i \in 1..Len(CandidatePapers(paperContext)) :
       StartsWithHttp(CandidatePapers(paperContext)[i].pdfUrl) =>
         CandidatePapers(paperContext)[i].title \in DecisionTitles

\* C13: with ten candidates with PDFs and nothing downloaded beforehand,
\* downloads that all succeed, and oracles that always recommend two valid
\* candidates and ask to go on, the main loop ends with exactly five
\* downloaded papers (maxPapers) and after fewer than maxIterations
\* iterations (three).
C13_FiveFetchedBeforeLastIteration ==
  pc = "add_start" =>
    /\ paperContext.totalDownloaded = maxPapers
    /\ Len(paperContext.downloadedContent) = maxPapers
    /\ Range(paperContext.downloadedContent) \subseteq Range(TenTitles)
    /\ iteration < maxIterations
    /\ Len(paperContext.selectionHistory) = iteration

C13_Witness ==
  /\ pc = "add_start"
  /\ Len(paperContext.availablePapers) = Len(TenTitles)
  /\ paperContext.totalDownloaded = maxPapers
  /\ iteration = 3

\* the candidates at the time of the decision whose title matches `title`
MatchingCandidates(title) ==
  {i \in 1..Len(CandidatePapers(paperContext)) :
     TitleMatches(CandidatePapers(paperContext)[i].title, title)}

\* the recommendations of the oracle that resolve to no candidate / to one
UnmatchedRecommendations ==
  {k \in 1..Len(decision.recommended) : MatchingCandidates(decision.recommended[k]) = {}}
MatchedRecommendations ==
  {k \in 1..Len(decision.recommended) : MatchingCandidates(decision.recommended[k]) # {}}

\* a decision validated from an oracle answer, before the pool changes
OracleDecided == pc = "sel_decided" /\ decision.source = "oracle"

\* every download of the decision is a candidate matched by a recommended
\* title, and there are no more downloads than matched recommendations
OnlyMatchedDownloaded ==
  /\ \A i \in 1..Len(decision.papersToDownload) :
       \E k \in MatchedRecommendations :
         \E c \in MatchingCandidates(decision.recommended[k]) :
           decision.papersToDownload[i].title = CandidatePapers(paperContext)[c].title
  /\ Len(decision.papersToDownload) <= Cardinality(MatchedRecommendations)

\* C14 (as stated): a recommended title that resolves to no candidate gives
\* no download, does not fail the stage, is neither retried nor replaced by
\* another candidate, and appears among the decision's skipped resources.
C14_UnmatchedRecordedAsSkipped ==
  (OracleDecided /\ UnmatchedRecommendations # {}) =>
    /\ OnlyMatchedDownloaded
    /\ result = None
    /\ \A k \in UnmatchedRecommendations :
         decision.recommended[k] \in Range(decision.papersToSkip)

\* C14 (amended): a recommended title that resolves to no candidate gives no
\* download, does not fail the stage, is neither retried nor replaced by
\* another candidate, and is dropped without a record: the decision's
\* skipped resources are exactly those the oracle listed itself.
C14_UnmatchedDropped ==
  (OracleDecided /\ UnmatchedRecommendations # {}) =>
    /\ OnlyMatchedDownloaded
    /\ result = None
    /\ decision.papersToSkip = decision.listed

C14_Witness ==
  /\ OracleDecided
  /\ UnmatchedRecommendations # {}
  /\ MatchedRecommendations # {}
  /\ Len(decision.papersToDownload) = 1
  /\ decision.papersToSkip = <<>>

\* `entry` names a paper of availablePapers, with that paper's own locator,
\* that is not in downloadedContent
KnownUnfetched(pctx, entry) ==
  \E i \in 1..Len(pctx.availablePapers) :
    /\ pctx.availablePapers[i].title = entry.title
    /\ pctx.availablePapers[i].pdfUrl = entry.pdfUrl
    /\ HasUrl(entry.pdfUrl)
    /\ ~MapHas(pctx.downloadedContent, entry.title)

\* C15: when a decision is taken, each of its downloads carries the pdfUrl of
\* a paper of availablePapers that is not in downloadedContent at that time,
\* never the pdfUrl written by the oracle; the decision is not changed while
\* its downloads run; and the locator given to downloadOpenAccessPdf is the
\* one of the decision's entry the for loop is at.
C15_FetchLocatorsAreCandidateLocators ==
  [][/\ pc' = "sel_decided" =>
          \A i \in 1..Len(decision'.papersToDownload) :
            /\ KnownUnfetched(paperContext', decision'.papersToDownload[i])
            /\ decision'.papersToDownload[i].pdfUrl # OracleUrl
     /\ (pc \in {"sel_decided", "sel_for", "sel_fetch"}
           /\ pc' \in {"sel_for", "sel_fetch"}) => decision' = decision
     /\ pc' = "sel_fetch" =>
          /\ dlIndex' \in 1..Len(decision'.papersToDownload)
          /\ ValueOf(lastFetch').pdfUrl = decision'.papersToDownload[dlIndex'].pdfUrl
          /\ ValueOf(lastFetch').title = decision'.papersToDownload[dlIndex'].title
          /\ ValueOf(lastFetch').pdfUrl # OracleUrl]_vars

C15_Witness ==
  /\ pc = "sel_fetch"
  /\ decision.source = "oracle"
  /\ dlIndex = 2
  /\ ValueOf(lastFetch).pdfUrl \in
       {paperContext.availablePapers[i].pdfUrl : i \in 1..Len(paperContext.availablePapers)}
  /\ StartsWithHttp(ValueOf(lastFetch).pdfUrl)

\* the control points at which an oracle, search or download call is awaited
ExternalCallPoints ==
  {"sel_oracle", "sel_fetch", "sel_cont", "add_oracle", "add_search", "add_fetch"}

\* C16: once the handler has seen, during the paper selection, that the
\* client is gone (isClosed was set by a failed enqueue), no decision, search
\* or download call is issued any more, no further stage is invoked, and
\* no event is put on the stream.
C16_NothingAfterCancellation ==
  [][(isClosed /\ clientGone /\ pc \in SelectionPoints) =>
       /\ pc' \in ExternalCallPoints => pc' = pc
       /\ \A s \in Steps : history'[s].invoked = history[s].invoked
       /\ sse' = sse]_vars

\* C17: whenever the decision oracle or a download of the main loop is
\* awaited, runPipeline eventually returns a GenerationResult, even if the
\* awaited call itself never returns.
C17_HungCallStillReturns ==
  (pc \in {"sel_oracle", "sel_fetch"}) ~> Returned

\* C20: an iteration of the main loop in which selectPapers found no
\* candidate left (not downloaded, with a PDF URL) is the last one: no
\* further iteration is started after it, whatever totalDownloaded is.
C20_NoCandidateEndsLoop ==
  [][(pc = "sel_for" /\ decision.source = "noCandidates") => pc' # "sel_head"]_vars

\* the data of a forwarded event is the emitted status, field by field
CarriesStatus(event, st) ==
  /\ event.name = "status"
  /\ event.data.step = st.step
  /\ event.data.status = st.status
  /\ event.data.currentAction = st.currentAction
  /\ event.data.timeElapsed = st.timeElapsed
  /\ ("error" \in DOMAIN event.data) <=> IsSome(st.error)
  /\ IsSome(st.error) => event.data.error = ValueOf(st.error)
  /\ ("output" \in DOMAIN event.data) <=> st.output

\* C19: while the stream is open, the status events enqueued by a step are
\* the statuses the step handed to onStatus: as many, in the same order,
\* each carrying its status.  When the handler itself closes the stream, the
\* stream ends with one 'complete' event that carries the result's success
\* flag and error, and no status event follows it.
C19_EveryStatusForwardedInOrder ==
  /\ ~isClosed =>
       /\ Len(sse.batch) = Len(emitted)
       /\ \A i \in 1..Len(emitted) : CarriesStatus(sse.batch[i], emitted[i])
  /\ (pc = "finished" /\ closeCalls = 1) =>
       /\ sse.last = "complete"
       /\ sse.terminals = 1
       /\ ~sse.late
       /\ IsSome(sse.final)
       /\ ValueOf(sse.final).success = ValueOf(result).success
       /\ ("error" \in DOMAIN ValueOf(sse.final)) <=> ~ValueOf(result).success
       /\ Len(sse.batch) = Len(emitted)
       /\ \A i \in 1..Len(emitted) : CarriesStatus(sse.batch[i], emitted[i])

C19_Witness ==
  /\ pc = "finished"
  /\ closeCalls = 1
  /\ ~ValueOf(sse.final).success
  /\ Len(sse.batch) = 4
  /\ sse.batch[4].data.status = "error"

C21_StopEndsMainLoop ==
  [][/\ (pc = "sel_for" /\ ForLoopOver /\ ~decision.shouldSearchMore) =>
          pc' \in {"sel_for", "add_start"}
     /\ (pc \in {"sel_for", "sel_cont"} /\ pc' = "sel_head") =>
          decision'.shouldContinue
     /\ (pc = "sel_cont" /\ pc' # "sel_cont") =>
          /\ pc' \in {"sel_head", "add_start"}
          /\ pc' = "add_start" <=> ~decision'.shouldContinue
     /\ pc' = "sel_head" => pc \in {"sel_head", "sel_for", "sel_cont", "stage"}
     /\ pc' \in {"sel_oracle", "sel_decided"} =>
          pc \in {"sel_head", "sel_oracle", "sel_decided"}
     /\ pc' = "sel_fetch" => pc \in {"sel_for", "sel_fetch"}
     /\ (pc \notin MainLoopPoints /\ ~(pc = "stage" /\ cur = 2)) =>
          pc' \notin MainLoopPoints]_vars

C21_Witness ==
  /\ pc = "add_start"
  /\ decision = ContinueResult(FALSE)
  /\ iteration = 2
  /\ paperContext.totalDownloaded < maxPapers

\* the candidate a recommendation resolves to: the first one its title matches
ResolvedCandidate(k) ==
  CandidatePapers(paperContext)[
    CHOOSE c \in MatchingCandidates(decision.recommended[k]) :
      \A d \in MatchingCandidates(decision.recommended[k]) : c <= d]

\* the recommendations that resolve to a candidate with an http(s) locator
UsableRecommendations ==
  {k \in MatchedRecommendations : StartsWithHttp(ResolvedCandidate(k).pdfUrl)}

\* the i-th recommendation of a set of recommendations, in the oracle's order
NthOf(ks, i) == CHOOSE k \in ks : Cardinality({j \in ks : j < k}) = i - 1

\* the decision downloads the first remainingSlots recommendations of ks, in
\* the oracle's order, each as the candidate it resolves to
DownloadsFirstOf(ks) ==
  /\ Len(decision.papersToDownload) = RemainingSlots(paperContext)
  /\ \A i \in 1..Len(decision.papersToDownload) :
       decision.papersToDownload[i].title = ResolvedCandidate(NthOf(ks, i)).title

\* the for loop attempts the downloads of the decision one after the other,
\* whatever the outcome of the one before, and ends after the last of them
AttemptsInDecisionOrder ==
  /\ (pc = "sel_decided" /\ pc' = "sel_for") => (dlIndex' = 1 /\ decision' = decision)
  /\ (pc = "sel_for" /\ pc' = "sel_fetch") =>
       /\ ValueOf(lastFetch').title = decision.papersToDownload[dlIndex].title
       /\ ValueOf(lastFetch').pdfUrl = decision.papersToDownload[dlIndex].pdfUrl
       /\ decision' = decision /\ dlIndex' = dlIndex
  /\ (pc = "sel_fetch" /\ pc' = "sel_for") =>
       (dlIndex' = dlIndex + 1 /\ decision' = decision)
  /\ (pc = "sel_for" /\ pc' \notin {"sel_for", "sel_fetch"}) =>
       dlIndex = Len(decision.papersToDownload) + 1
  /\ pc' = "sel_fetch" => pc \in {"sel_for", "sel_fetch"}

\* C22 (as stated): when the recommendations that resolve to candidates
\* outnumber remainingSlots, the papers attempted in the iteration are
\* exactly the first remainingSlots of them in the oracle's order, also when
\* an earlier download fails.
C22_FirstResolvedAttempted ==
  [][/\ (OracleDecided /\
          Cardinality(MatchedRecommendations) > RemainingSlots(paperContext)) =>
         DownloadsFirstOf(MatchedRecommendations)
     /\ AttemptsInDecisionOrder]_vars

\* C22 (amended): when the recommendations that resolve to candidates with
\* an http(s) locator outnumber remainingSlots, the papers attempted in the
\* iteration are exactly the first remainingSlots of those, in the oracle's
\* order, also when an earlier download fails.
C22_FirstUsableAttempted ==
  [][/\ (OracleDecided /\
          Cardinality(UsableRecommendations) > RemainingSlots(paperContext)) =>
         DownloadsFirstOf(UsableRecommendations)
     /\ AttemptsInDecisionOrder]_vars

C22_Witness ==
  /\ pc = "sel_for"
  /\ decision.source = "oracle"
  /\ Len(decision.recommended) = 2
  /\ decision.recommended[1] # decision.recommended[2]
  /\ Cardinality(UsableRecommendations) > RemainingSlots(paperContext)
  /\ dlIndex = Len(decision.papersToDownload) + 1
  /\ dlIndex = 2
  /\ ValueOf(lastFetch).outcome = "null"

\* a download of the main loop has just come back without a usable text
MainDownloadFailed ==
  /\ pc = "sel_fetch" /\ pc' = "sel_for"
  /\ ValueOf(lastFetch').outcome \in {"null", "parseThrow", "short"}

\* C23: a download attempt of the main loop that fails (nothing downloaded,
\* the PDF parser throws, or a text of at most 100 characters) leaves
\* downloadedContent and totalDownloaded unchanged and does not fail the
\* stage; the for loop moves on to the next paper of the decision, which is
\* the one whose download is started next.
C23_FailedDownloadOnlyAdvances ==
  [][/\ MainDownloadFailed =>
          /\ paperContext'.downloadedContent = paperContext.downloadedContent
          /\ paperContext'.totalDownloaded = paperContext.totalDownloaded
          /\ result' = None
          /\ agentStatuses'[3].status = "running"
          /\ decision' = decision
          /\ dlIndex' = dlIndex + 1
          /\ (dlIndex' <= Len(decision.papersToDownload) =>
                paperContext'.totalDownloaded < maxPapers)
     /\ (pc = "sel_for" /\ pc' = "sel_fetch") =>
          ValueOf(lastFetch').title = decision.papersToDownload[dlIndex].title
     /\ (pc = "sel_for" /\ dlIndex <= Len(decision.papersToDownload)) =>
          pc' \in {"sel_for", "sel_fetch"}]_vars

C23_Witness ==
  /\ pc = "sel_fetch"
  /\ dlIndex = 2
  /\ ValueOf(lastFetch).outcome = "pending"
  /\ ValueOf(lastFetch).title = decision.papersToDownload[2].title
  /\ decision.papersToDownload[1].title # decision.papersToDownload[2].title
  /\ ~MapHas(paperContext.downloadedContent, decision.papersToDownload[1].title)

\* the fallback decision has just been built, the pool is as it was read
FallbackDecided == pc = "sel_decided" /\ decision.source = "fallback"

\* the candidates the decision downloads: same title and same locator
SelectedCandidates ==
  {j \in 1..Len(CandidatePapers(paperContext)) :
     \E i \in 1..Len(decision.papersToDownload) :
       /\ decision.papersToDownload[i].title = CandidatePapers(paperContext)[j].title
       /\ decision.papersToDownload[i].pdfUrl = CandidatePapers(paperContext)[j].pdfUrl}

\* the place among the candidates of the i-th download of the decision
CandidateOf(i) ==
  CHOOSE j \in SelectedCandidates :
    /\ decision.papersToDownload[i].title = CandidatePapers(paperContext)[j].title
    /\ decision.papersToDownload[i].pdfUrl = CandidatePapers(paperContext)[j].pdfUrl

\* C24: when the decision call throws, papersToDownload holds exactly
\* min(remainingSlots, number of candidates) different candidates (not yet
\* downloaded, with a PDF locator), each with its own locator; no candidate
\* left out has a higher score 2*(year-2020) + log10(citationCount+1) than
\* one selected; the order is by descending score and, among equal scores,
\* the candidates' own order, so the selection is a function of the inputs.
C24_FallbackTakesTopScored ==
  FallbackDecided =>
    LET cands == CandidatePapers(paperContext)
        n == Len(decision.papersToDownload)
    IN /\ n = Min(RemainingSlots(paperContext), Len(cands))
       /\ Cardinality(SelectedCandidates) = n
       /\ \A j \in 1..Len(cands) :
            /\ HasUrl(cands[j].pdfUrl)
            /\ ~MapHas(paperContext.downloadedContent, cands[j].title)
       /\ \A j \in SelectedCandidates :
            \A u \in (1..Len(cands)) \ SelectedCandidates :
              Score(cands[j]) >= Score(cands[u])
       /\ \A i \in 1..n : \A k \in 1..n :
            i < k =>
              \/ Score(cands[CandidateOf(i)]) > Score(cands[CandidateOf(k)])
              \/ /\ Score(cands[CandidateOf(i)]) = Score(cands[CandidateOf(k)])
                 /\ CandidateOf(i) < CandidateOf(k)
       /\ \A u \in (1..Len(cands)) \ SelectedCandidates :
            \A j \in SelectedCandidates :
              Score(cands[j]) = Score(cands[u]) => j < u
       /\ decision.papersToSkip = <<>>
       /\ ~decision.shouldSearchMore

C24_Witness ==
  /\ FallbackDecided
  /\ Len(CandidatePapers(paperContext)) > RemainingSlots(paperContext)
  /\ \E j \in SelectedCandidates :
       \E u \in (1..Len(CandidatePapers(paperContext))) \ SelectedCandidates : u < j

\* the control points of the paper selection at which an answer of an
\* oracle has been accepted and is being acted upon
AnswerInUsePoints ==
  {"sel_decided", "sel_for", "sel_fetch", "add_decided", "add_for", "add_search",
   "add_fetch"}

\* C25 (as stated): an oracle decision without papersToDownload, without
\* papersToSkip or without a boolean shouldSearchMore is repaired to empty
\* lists and false; an additional-paper response with missing fields is
\* repaired to an empty suggestion list and shouldSuggestMore = false; and
\* acting upon an accepted answer never makes the paper-selection stage fail.
C25_InvalidAnswerNeverFailsStage ==
  [][/\ (pc = "sel_oracle" /\ pc' = "sel_decided" /\ decision'.source = "oracle") =>
          /\ "papersToDownload" \in decision'.defaulted =>
                decision'.papersToDownload = <<>>
          /\ "papersToSkip" \in decision'.defaulted => decision'.papersToSkip = <<>>
          /\ "shouldSearchMore" \in decision'.defaulted => ~decision'.shouldSearchMore
          /\ result' = None
     /\ (pc = "add_oracle" /\ pc' = "add_decided") =>
          /\ "suggestedPapers" \in additional'.decision.defaulted =>
                additional'.decision.suggestedPapers = <<>>
          /\ "shouldSuggestMore" \in additional'.decision.defaulted =>
                ~additional'.decision.shouldSuggestMore
          /\ result' = None
     /\ pc \in AnswerInUsePoints => result' = None]_vars

\* the control points of the additional-papers loop
AdditionalLoopPoints ==
  {"add_head", "add_oracle", "add_decided", "add_for", "add_search", "add_fetch"}

\* C26: whenever suggestAdditionalPapers is being called, previousResults
\* holds one outcome for each suggestion the for loop has taken up in the
\* earlier iterations, in the order of the attempts: its success flag, and
\* an error reason exactly when it failed; and within the loop the results
\* are only appended to.
C26_OneOutcomePerAttempt ==
  [][/\ pc = "add_oracle" =>
          /\ Len(additional.results) = Len(additional.attempts)
          /\ \A i \in 1..Len(additional.results) :
               /\ additional.results[i].suggestion = additional.attempts[i]
               /\ additional.results[i].success <=> additional.results[i].error = "none"
     /\ (pc \in AdditionalLoopPoints /\ pc' \in AdditionalLoopPoints) =>
          /\ Len(additional'.results) >= Len(additional.results)
          /\ SubSeq(additional'.results, 1, Len(additional.results)) = additional.results
     /\ pc' = "add_oracle" => pc \in {"add_head", "add_oracle"}]_vars

C26_Witness ==
  /\ pc = "add_oracle"
  /\ additional.iteration = 3
  /\ Len(additional.attempts) = 2
  /\ additional.results[1].success
  /\ ~additional.results[2].success

\* the control points at which the locals of the additional-papers loop exist
AdditionalPoints == AdditionalLoopPoints \cup {"add_exit"}

\* C27: the additional-papers loop has its own budget.  Its counters start
\* at zero whatever the main loop did; additionalIteration never exceeds
\* maxAdditionalIterations and grows by one per call of the suggestion
\* oracle; additionalDownloaded never exceeds maxAdditionalPapers; and the
\* loop changes neither totalDownloaded nor the main loop's iteration count.
C27_AdditionalLoopOwnBudget ==
  [][/\ pc \in AdditionalPoints =>
          /\ additional.iteration \in 0..maxAdditionalIterations
          /\ additional.downloaded \in 0..maxAdditionalPapers
     /\ (pc = "add_start" /\ pc' = "add_head") =>
          /\ additional'.iteration = 0
          /\ additional'.downloaded = 0
          /\ paperContext'.totalDownloaded = paperContext.totalDownloaded
     /\ (pc \in AdditionalPoints /\ pc' \in AdditionalPoints) =>
          /\ paperContext'.totalDownloaded = paperContext.totalDownloaded
          /\ iteration' = iteration
          /\ additional'.iteration =
               IF pc = "add_head" /\ pc' = "add_oracle"
               THEN additional.iteration + 1 ELSE additional.iteration
          /\ additional'.downloaded \in {additional.downloaded, additional.downloaded + 1}
     /\ pc' = "add_oracle" => pc \in {"add_head", "add_oracle"}]_vars

C27_Witness ==
  /\ pc = "add_exit"
  /\ additional.downloaded = maxAdditionalPapers
  /\ additional.iteration = 2
  /\ iteration = 1
  /\ paperContext.totalDownloaded > maxPapers

\* C28 (as stated): a run-context field is written only while the stage
\* that owns it is the current one, and only once; after a stage is
\* 'complete' the artifact it put into the run context is never changed.
C28_ArtifactsWrittenOnce ==
  [][\A s \in ArtifactSteps :
       /\ context'[ContextField[s]] # context[ContextField[s]] =>
            (cur = s /\ ~IsSome(context[ContextField[s]]))
       /\ agentStatuses[s].status = "complete" =>
            context'[ContextField[s]] = context[ContextField[s]]]_vars

\* the run-context fields each stage is handed when it is invoked
StageReads ==
  [s \in Steps |->
     CASE s \in {1, 2} -> {}
       [] s \in {3, 4} -> {"userProfile", "professorProfile"}
       [] s \in {5, 6, 8} -> {"userProfile", "professorProfile", "fitAnalysis"}
       [] s = 7 -> {"userProfile", "professorProfile", "fitAnalysis", "email"}]

\* C29: whenever a stage is in progress, every run-context field it reads
\* is set and is owned by a strictly earlier stage that is 'complete'; when
\* runPipeline awaits a stage, that stage is the one in progress; and no two
\* stages are in progress at once.
C29_UpstreamArtifactsComplete ==
  /\ \A s \in Steps :
       agentStatuses[s].status = "running" =>
         \A f \in StageReads[s] :
           /\ IsSome(context[f])
           /\ \E t \in 1..(s - 1) :
                ContextField[t] = f /\ agentStatuses[t].status = "complete"
  /\ (pc \notin {"request", "returned", "finished"} /\ cur \in Steps) =>
       agentStatuses[cur].status = "running"
  /\ Cardinality({s \in Steps : agentStatuses[s].status = "running"}) <= 1

C29_Witness ==
  /\ pc = "stage"
  /\ cur = 7
  /\ agentStatuses[7].status = "running"
  /\ IsSome(context["email"])

\* a download has been started and has not resolved yet
FetchInFlight == IsSome(lastFetch) /\ ValueOf(lastFetch).outcome = "pending"

\* the control points at which a decision call is in progress
DecisionCallPoints == {"sel_oracle", "sel_cont", "add_oracle"}

\* C30: a download that was started is in flight only while the loop that
\* started it waits for it; when it resolves its outcome is recorded (the
\* counter of the main loop grows exactly on a success, the additional loop
\* appends one result whose success flag is the outcome); so no download is
\* in flight when a decision call is issued or in progress, nor when the
\* paper selection is complete.
C30_DownloadsResolveBeforeNextCall ==
  [][/\ FetchInFlight => pc \in {"sel_fetch", "add_fetch"}
     /\ pc \in {"sel_fetch", "add_fetch"} => FetchInFlight
     /\ (pc \in DecisionCallPoints \/ pc' \in DecisionCallPoints) => ~FetchInFlight'
     /\ agentStatuses'[3].status = "complete" => ~FetchInFlight'
     /\ (pc = "sel_fetch" /\ pc' # "sel_fetch") =>
          /\ pc' = "sel_for"
          /\ ValueOf(lastFetch').outcome \in FetchOutcomes
          /\ paperContext'.totalDownloaded = paperContext.totalDownloaded +
               (IF ValueOf(lastFetch').outcome = "ok" THEN 1 ELSE 0)
     /\ (pc = "add_fetch" /\ pc' # "add_fetch") =>
          /\ pc' = "add_for"
          /\ ValueOf(lastFetch').outcome \in FetchOutcomes
          /\ Len(additional'.results) = Len(additional.results) + 1
          /\ additional'.results[Len(additional'.results)].success <=>
               ValueOf(lastFetch').outcome = "ok"]_vars

C30_Witness ==
  /\ pc = "add_oracle"
  /\ additional.iteration = 2
  /\ additional.results[1].success
  /\ Len(paperContext.selectionHistory) = 2
  /\ paperContext.totalDownloaded = 5

\* C31 (as stated): while no connected instance exists at most one launch
\* is in progress, and every launched browser that is still connected is
\* the one browserInstance refers to.
C31_NoBrowserOrphaned ==
  /\ Cardinality(Launching(browser)) <= 1
  /\ \A b \in 1..MaxLaunches :
       browser.state[b] = "connected" => browser.browserInstance = b

\* the moves of a stage's status that the claim allows
AllowedStatusMoves ==
  {<<"pending", "running">>, <<"running", "complete">>, <<"running", "error">>}

\* C32: at most one stage is 'running'; when one is, every stage with a
\* smaller ordinal is 'complete' and every stage with a larger ordinal is
\* 'pending'; a status only moves pending -> running -> complete or error,
\* so a stage that is 'complete' or 'error' never changes again.
C32_StatusesAdvanceInOrder ==
  [][/\ Cardinality({s \in Steps : agentStatuses[s].status = "running"}) <= 1
     /\ \A s \in Steps :
          agentStatuses[s].status = "running" =>
            /\ \A t \in 1..(s - 1) : agentStatuses[t].status = "complete"
            /\ \A t \in (s + 1)..NumAgents : agentStatuses[t].status = "pending"
     /\ \A s \in Steps :
          agentStatuses'[s].status # agentStatuses[s].status =>
            <<agentStatuses[s].status, agentStatuses'[s].status>> \in AllowedStatusMoves]_vars

C32_Witness ==
  /\ agentStatuses[5].status = "error"
  /\ agentStatuses[4].status = "complete"
  /\ agentStatuses[6].status = "pending"
  /\ pc = "finished"

\* additionalDownloaded, which is declared when the additional-papers loop
\* starts
AdditionalDownloaded ==
  IF pc \in AdditionalPoints THEN additional.downloaded ELSE 0

\* C33 (as stated): at every point of the paper selection the number of
\* keys of downloadedContent equals totalDownloaded + additionalDownloaded.
C33_KeysEqualCounters ==
  pc \in SelectionPoints =>
    Len(paperContext.downloadedContent) =
      paperContext.totalDownloaded + AdditionalDownloaded

\* C34 (as stated): the paper-selection stage never fails: once stages 1 and
\* 2 are complete, no step of stage 3 (a rejected oracle call, a failed
\* lookup, download or parse, or any other step made while every external
\* call returns) puts stage 3 into status 'error' or ends the run with a
\* failure result.
C34_SelectionStageNeverFails ==
  /\ agentStatuses[3].status # "error"
  /\ (pc \in SelectionPoints => result = None)

\* C35: when runPipeline has returned a result with success = false, exactly
\* one stage has status 'error', it is the stage that was being run when the
\* error was thrown, and the error text of its status equals the error of
\* the result.
C35_ErrorStageIsThrowingStage ==
  (IsSome(result) /\ ~ValueOf(result).success) =>
    /\ {s \in Steps : agentStatuses[s].status = "error"} = {cur}
    /\ agentStatuses[cur].error = ValueOf(result).error

\* a run has failed in the plan-writing stage with the oracle's error
C35_Witness ==
  /\ IsSome(result)
  /\ ~ValueOf(result).success
  /\ ValueOf(result).error = Some("Error: Gemini API call failed")
  /\ cur = 6
  /\ agentStatuses[6].status = "error"

\* the continue check is being answered without the oracle
AnsweredByHardLimit ==
  /\ pc = "sel_for"
  /\ ForLoopOver
  /\ decision.shouldSearchMore
  /\ pc' \in {"sel_head", "add_start"}

\* C36 (as stated): the "enough?" oracle is asked only after a primary
\* decision with shouldSearchMore = true, with iteration < maxIterations and
\* 2 <= totalDownloaded < maxPapers; with fewer than 2 fetched papers the
\* check answers continue without asking the oracle; and when the oracle
\* call fails the answer is stop.
C36_ContinueCheckAsStated ==
  [][/\ (pc = "sel_for" /\ pc' = "sel_cont") =>
          /\ decision.shouldSearchMore
          /\ iteration < maxIterations
          /\ MinPapers <= paperContext.totalDownloaded
          /\ paperContext.totalDownloaded < maxPapers
     /\ (AnsweredByHardLimit /\ paperContext.totalDownloaded < MinPapers) =>
          decision'.shouldContinue
     /\ SelContinueFail => ~decision'.shouldContinue]_vars

\* C36 (amended): as above, but with fewer than 2 fetched papers the check
\* answers continue only while iteration < maxIterations; in the last
\* iteration it answers stop, also without asking the oracle.
C36_OracleAskedOnlyWithinLimits ==
  [][/\ (pc = "sel_for" /\ pc' = "sel_cont") =>
          /\ decision.shouldSearchMore
          /\ iteration < maxIterations
          /\ MinPapers <= paperContext.totalDownloaded
          /\ paperContext.totalDownloaded < maxPapers
     /\ (AnsweredByHardLimit /\ paperContext.totalDownloaded < MinPapers) =>
          (decision'.shouldContinue <=> iteration < maxIterations)
     /\ SelContinueFail => ~decision'.shouldContinue]_vars

\* the last iteration ends with fewer than 2 fetched papers and a primary
\* decision to go on: the check has answered stop without the oracle
C36_Witness ==
  /\ pc = "add_start"
  /\ decision = ContinueResult(FALSE)
  /\ iteration = maxIterations
  /\ paperContext.totalDownloaded < MinPapers

\* C37: every stage that is 'complete' has emitted at least one intermediate
\* status event (status 'running' with a currentAction other than the one
\* of its initial 'running' event) after its initial 'running' event and
\* before its 'complete' event.
C37_CompleteStageGaveNotice ==
  /\ \A s \in Steps : agentStatuses[s].status = "complete" => history[s].noticed
  /\ \A s \in Steps : history[s].noticed => history[s].invoked >= 1

\* a whole run: the last stage is complete and has given a notice
C37_Witness ==
  /\ agentStatuses[NumAgents].status = "complete"
  /\ history[NumAgents].noticed
  /\ history[3].noticed

\* C38: selectionHistory grows by exactly one decision per iteration of the
\* main loop and is never truncated or reordered: it always holds the
\* decisions of the iterations 1, 2, ... in that order, a step either leaves
\* it alone or appends the decision of the current iteration, the decision of
\* an iteration is stored before its downloads start, and when the loop ends
\* its length is the number of iterations executed.
C38_OneDecisionPerIteration ==
  [][/\ pc' \in SelectionPoints =>
          /\ \A i \in 1..Len(paperContext'.selectionHistory) :
                paperContext'.selectionHistory[i] = i
          /\ Len(paperContext'.selectionHistory) \in {iteration' - 1, iteration'}
          /\ pc' \notin {"sel_head", "sel_oracle", "sel_decided"} =>
                Len(paperContext'.selectionHistory) = iteration'
     /\ (pc \in SelectionPoints /\ pc' \in SelectionPoints) =>
          \/ paperContext'.selectionHistory = paperContext.selectionHistory
          \/ /\ pc = "sel_decided"
             /\ paperContext'.selectionHistory =
                  Append(paperContext.selectionHistory, iteration)]_vars

\* the main loop has ended after three iterations with three decisions
C38_Witness ==
  /\ pc = "add_start"
  /\ iteration = 3
  /\ paperContext.selectionHistory = <<1, 2, 3>>

\* an enqueue of this step has thrown: isClosed is set without a close
EnqueueFailed == ~isClosed /\ isClosed' /\ closeCalls' = closeCalls

\* C39: once isClosed is set (an enqueue has failed or the stream has been
\* closed) it stays set and nothing further is enqueued; controller.close()
\* is called at most once, only by the handler after runPipeline has
\* returned, and never in or after a step with a failed enqueue; and a
\* failed enqueue is not raised into runPipeline: the statuses are updated
\* all the same, and when the run ends in that step with a failure it is the
\* failure of a stage, reported by the catch block as that stage's error.
C39_ClosedStreamStaysQuiet ==
  [][/\ isClosed => (isClosed' /\ sse' = sse /\ closeCalls' = closeCalls)
     /\ closeCalls' \in {closeCalls, closeCalls + 1}
     /\ closeCalls' <= 1
     /\ closeCalls' > closeCalls =>
          (pc = "returned" /\ pc' = "finished" /\ ~clientGone /\ sse'.last = "complete")
     /\ (EnqueueFailed /\ pc # "returned") =>
          /\ emitted' # <<>>
          /\ \A i \in 1..Len(emitted') :
                agentStatuses'[emitted'[i].step].step = emitted'[i].step
          /\ agentStatuses'[emitted'[Len(emitted')].step] = emitted'[Len(emitted')]
          /\ (IsSome(result') /\ ~ValueOf(result').success) =>
                /\ emitted'[Len(emitted')].status = "error"
                /\ emitted'[Len(emitted')].error = ValueOf(result').error
                /\ ValueOf(ValueOf(result').error) \in Errors]_vars

\* the consumer went away during the run: an enqueue failed, the run went on
\* to a successful result, and the handler finished without closing
C39_Witness ==
  /\ pc = "finished"
  /\ clientGone
  /\ isClosed
  /\ closeCalls = 0
  /\ sse.statuses
  /\ sse.terminals = 0
  /\ ValueOf(result).success
====
